---- MODULE Spec2Model ----
(***************************************************************************)
(* The Unchained container of flask_unchained/unchained.py: the service    *)
(* registry, the dependency injector, the deferred-registration facade and *)
(* the application lifecycle (init_app / _init_services / _reset).         *)
(*                                                                         *)
(* Every action is one whole method call.  The variable `last` is a        *)
(* history variable: it records the most recent call, its arguments and    *)
(* what the caller observed (return, warning, exception).                  *)
(***************************************************************************)
EXTENDS Integers, Sequences, FiniteSets, TLC

VARIABLES
    _initialized,        \* Unchained._initialized
    _services_registry,  \* Unchained._services_registry : name -> pending class
    extensions,          \* Unchained.extensions         : name -> live extension
    services,            \* Unchained.services           : name -> live service
    _deferred_functions, \* Unchained._deferred_functions: sequence of closures
    bundles,             \* Unchained.bundles
    babel_bundle,        \* Unchained.babel_bundle
    apps,                \* the Flask applications handed to init_app
    _action_log,         \* Unchained._action_log   : category -> logged entries
    _action_tables,      \* Unchained._action_tables: category -> table
    _bundle_stores,      \* Unchained._bundle_stores: store name -> store
    _model,              \* ModelManagerMetaOptionsFactory._model
    decorated,           \* the callables and classes inject has been applied to
    DEFAULT_CONTEXT_SETTINGS, \* click.DEFAULT_CONTEXT_SETTINGS (module level)
    commands,            \* the Command and Group objects built so far
    arguments,           \* the Argument objects built so far
    environ,             \* os.environ
    last                 \* history: the most recent call and its outcome

vars == <<_initialized, _services_registry, extensions, services,
          _deferred_functions, bundles, babel_bundle, apps, _action_log,
          _action_tables, _bundle_stores, _model, decorated,
          DEFAULT_CONTEXT_SETTINGS, commands, arguments, environ, last>>

\* the action log
logVars == <<_action_log, _action_tables>>

\* the model manager's options and the stores it reads
modelVars == <<_bundle_stores, _model>>

\* the command-line layer and the process environment
cliVars == <<DEFAULT_CONTEXT_SETTINGS, commands, arguments, environ>>

\* the state the service container and the lifecycle leave alone
auxVars == <<_action_log, _action_tables, _bundle_stores, _model, decorated,
             cliVars>>

-----------------------------------------------------------------------------
\* Bounds of the model.

\* most closures ever queued in _deferred_functions (lifecycle specification)
MaxDeferred == 2
\* most init_app calls in one behaviour (lifecycle specification)
MaxInitCalls == 2
\* cap on queued closures and on init_app calls in the specifications whose
\* inputs concentrate on the service registry or on inject
MinorCap == 1
\* most entries ever held by the action log
MaxLog == 2
\* the readings of the wall clock, datetime.now(), are 0..MaxTime
MaxTime == 1
\* longest list of bundles handed to collect_objects
MaxBundles == 2
\* most applications of inject to one callable or class
MaxApplications == 2

-----------------------------------------------------------------------------
\* Values.

\* Python's None
None == "None"

\* flask_unchained.di.injectable, the sentinel default of injectable parameters
injectable == "injectable"

\* names under which services and extensions are registered
Names == {"a", "b", "c"}

\* the Flask application objects a caller may pass to init_app
Apps == {"app1", "app2"}

\* a dict with no keys
EmptyMap == [k \in {} |-> None]

\* d[k] = v on a dict
Put(d, k, v) == [x \in (DOMAIN d) \cup {k} |-> IF x = k THEN v ELSE d[x]]

\* d.get(k, default)
Get(d, k, default) == IF k \in DOMAIN d THEN d[k] ELSE default

\* a class handed to register_service / service; `params` are the parameter
\* names of its constructor (all without defaults)
Class(id, params) == [kind |-> "class", id |-> id, params |-> params]

\* a non-class object handed to register_service / service
Object(id) == [kind |-> "object", id |-> id, params |-> {}]

\* inspect.isclass
isclass(thing) == thing.kind = "class"

\* callable(): classes and plain callables
callable(thing) == thing.kind \in {"class", "callable"}

\* the instance that calling the class registered under `name` returns
InstanceOf(name) == "inst_" \o name

\* a bundle class; `babel` tells whether it subclasses BabelBundle
Bundle(id, babel) == [id |-> id, babel |-> babel]

\* the `bundles` argument of init_app: a list of bundle classes ...
List(items) == [isNone |-> FALSE, items |-> items]

\* ... or None, the default of the parameter
NoBundles == [isNone |-> TRUE, items |-> <<>>]

\* an event on an application: a registration made on it by init_app
Event(kind, id) == [kind |-> kind, id |-> id]

\* ActionTableItem(column_names, converter)
ActionTableItem(column_names, converter) ==
    [column_names |-> column_names, converter |-> converter]

\* the tables __init__ registers: 'flask', 'bundle' and 'hook'
InitialActionTables ==
    [category \in {"flask", "bundle", "hook"} |->
        CASE category = "flask" ->
                 ActionTableItem(<<"app_name", "root_path", "kwargs">>, "flask_row")
          [] category = "bundle" ->
                 ActionTableItem(<<"name", "location">>, "bundle_row")
          [] category = "hook" ->
                 ActionTableItem(<<"Hook Name", "Default Bundle Module",
                                   "Bundle Module Override Attr", "Description">>,
                                 "hook_row")]

-----------------------------------------------------------------------------
\* State after Unchained.__init__ (and, for the model manager's options,
\* after ModelManagerMetaOptionsFactory.__init__), with the click module
\* imported, no command built and an environment that sets no variable.

Init ==
    /\ _initialized = FALSE
    /\ _services_registry = EmptyMap
    /\ extensions = EmptyMap
    /\ services = EmptyMap
    /\ _deferred_functions = <<>>
    /\ bundles = List(<<>>)
    /\ babel_bundle = None
    /\ apps = [a \in Apps |-> [unchained |-> FALSE, log |-> <<>>]]
    /\ _action_log = EmptyMap
    /\ _action_tables = InitialActionTables
    /\ _bundle_stores = EmptyMap
    /\ _model = None
    /\ decorated = EmptyMap
    /\ DEFAULT_CONTEXT_SETTINGS = [help_option_names |-> <<"-h", "--help">>]
    /\ commands = EmptyMap
    /\ arguments = EmptyMap
    /\ environ = EmptyMap
    /\ last = [op |-> "__init__"]

-----------------------------------------------------------------------------
\* Deferred registration: add_url_rule, before_request, ..., template_test.

\* the methods that hand a closure to _defer
DeferMethods ==
    {"add_url_rule", "before_request", "before_first_request", "after_request",
     "teardown_request", "teardown_appcontext", "context_processor",
     "shell_context_processor", "url_value_preprocessor", "url_defaults",
     "errorhandler", "template_filter", "template_global", "template_tag",
     "template_test"}

\* faulty variant of _defer: a late registration is dropped instead of queued
DeferDropsLate(fns, fn, initialized) ==
    IF initialized THEN fns ELSE Append(fns, fn)

\* _defer(fn): the closure list after the call; the warning changes nothing
_defer(fns, fn, initialized) ==
    Append(fns, fn)

\* One of the deferred-registration methods is called.  Each builds a fresh
\* closure (identified by its position in the list, which never shrinks) and
\* passes it to _defer; the container treats the closures of all methods
\* alike.
DeferredRegistration(method, cap) ==
    /\ Len(_deferred_functions) < cap
    /\ LET fn == Len(_deferred_functions) + 1
       IN /\ _deferred_functions' = _defer(_deferred_functions, fn, _initialized)
          /\ last' = [op |-> "defer", closure |-> fn, outcome |-> "ok",
                      warned |-> _initialized]
    /\ UNCHANGED auxVars
    /\ UNCHANGED <<_initialized, _services_registry, extensions, services,
                   bundles, babel_bundle, apps>>

-----------------------------------------------------------------------------
\* init_app.

\* issubclass(b, BabelBundle)
IsBabelBundle(b) == b.babel

\* faulty variant of babel_bundle: the last localization bundle instead of the first
LastBabelBundle(bs) ==
    LET found == SelectSeq(bs, IsBabelBundle)
    IN IF found = <<>> THEN None ELSE found[Len(found)].id

\* [b for b in bundles if issubclass(b, BabelBundle)][0], None on IndexError
FirstBabelBundle(bs) ==
    LET found == SelectSeq(bs, IsBabelBundle)
    IN IF found = <<>> THEN None ELSE found[1].id

\* faulty variant of the replay: the hook-running hook runs before the closures
HookBeforeDeferred(fns) ==
    <<Event("hook", 0)>> \o [i \in 1..Len(fns) |-> Event("deferred", fns[i])]

\* faulty variant of the replay: the closures are replayed newest first
DeferredNewestFirst(fns) ==
    [i \in 1..Len(fns) |-> Event("deferred", fns[Len(fns) + 1 - i])]
        \o <<Event("hook", 0)>>

\* what init_app invokes on the application after resolving babel_bundle, in
\* order: every deferred closure, then RunHooksHook(self).run_hook
InitAppInvocations(fns) ==
    [i \in 1..Len(fns) |-> Event("deferred", fns[i])] \o <<Event("hook", 0)>>

\* faulty variant of init_app: the flag is set before the closures and the hook run
MarkedBeforeRunning(initialized, raised) == TRUE

\* _initialized after init_app: line 101 is reached only when nothing raised
InitializedAfterInitApp(initialized, raised) ==
    IF raised THEN initialized ELSE TRUE

\* the number of init_app calls made so far: each registers one
\* shell context processor on its application (line 86)
InitCalls ==
    Cardinality({p \in UNION {{<<a, i>> : i \in DOMAIN apps[a].log} : a \in Apps} :
                    apps[p[1]].log[p[2]].kind = "shell_context_processor"})

\* init_app(app, env, bundles).  raiseAt is the position, among the
\* invocations on the application, of the one that raises (0: none does);
\* whether a closure or the hook raises is decided by the framework and the
\* bundles, outside this container.
init_app(app, bundlesArg, raiseAt, cap) ==
    /\ InitCalls < cap
    /\ raiseAt \in 0..(Len(_deferred_functions) + 1)
    /\ bundles' = bundlesArg
    /\ UNCHANGED auxVars
    /\ UNCHANGED <<_services_registry, extensions, services, _deferred_functions>>
    /\ LET attached == [unchained |-> TRUE,
                        log |-> Append(apps[app].log,
                                       Event("shell_context_processor", 0))]
       IN IF bundlesArg.isNone
          THEN \* line 91 iterates None: TypeError, which except IndexError
               \* does not catch
               /\ apps' = [apps EXCEPT ![app] = attached]
               /\ UNCHANGED <<babel_bundle, _initialized>>
               /\ last' = [op |-> "init_app", app |-> app, outcome |-> "TypeError",
                           invoked |-> <<>>, completed |-> <<>>]
          ELSE LET all == InitAppInvocations(_deferred_functions)
                   raised == raiseAt # 0
                   invoked == IF raised THEN SubSeq(all, 1, raiseAt) ELSE all
                   completed == IF raised THEN SubSeq(all, 1, raiseAt - 1) ELSE all
               IN /\ babel_bundle' = FirstBabelBundle(bundlesArg.items)
                  /\ apps' = [apps EXCEPT ![app] =
                                 [attached EXCEPT !.log = @ \o completed]]
                  /\ _initialized' = InitializedAfterInitApp(_initialized, raised)
                  /\ last' = [op |-> "init_app", app |-> app,
                              outcome |-> IF raised THEN "raised" ELSE "ok",
                              invoked |-> invoked, completed |-> completed]

-----------------------------------------------------------------------------
\* _reset.

\* faulty variant of _reset: the deferred closures are dropped as well
ResetDroppingDeferred ==
    /\ _initialized' = FALSE
    /\ _services_registry' = EmptyMap
    /\ extensions' = EmptyMap
    /\ services' = EmptyMap
    /\ _deferred_functions' = <<>>
    /\ last' = [op |-> "_reset", outcome |-> "ok"]
    /\ UNCHANGED auxVars
    /\ UNCHANGED <<bundles, babel_bundle, apps>>

\* _reset(): for use by tests only
_reset ==
    /\ _initialized' = FALSE
    /\ _services_registry' = EmptyMap
    /\ extensions' = EmptyMap
    /\ services' = EmptyMap
    /\ last' = [op |-> "_reset", outcome |-> "ok"]
    /\ UNCHANGED auxVars
    /\ UNCHANGED <<_deferred_functions, bundles, babel_bundle, apps>>

-----------------------------------------------------------------------------
\* Service registration.

\* ensure_service_name(service, name): the given name, or the one inferred
\* from the class
ensure_service_name(thing, name) == IF name = None THEN thing.id ELSE name

\* faulty variant of register_service: the late-registration check is missing
RegisterIgnoringInitialized(name, thing, initialized, registry, svcs) ==
    IF ~isclass(thing)
    THEN [registry |-> registry, services |-> Put(svcs, name, thing.id),
          warned |-> FALSE]
    ELSE [registry |-> Put(registry, ensure_service_name(thing, name), thing),
          services |-> svcs, warned |-> FALSE]

\* faulty variant of register_service: the late-registration check comes first and
\* also refuses live objects
RegisterRefusingAllLate(name, thing, initialized, registry, svcs) ==
    IF initialized
    THEN [registry |-> registry, services |-> svcs, warned |-> TRUE]
    ELSE IF ~isclass(thing)
    THEN [registry |-> registry, services |-> Put(svcs, name, thing.id),
          warned |-> FALSE]
    ELSE [registry |-> Put(registry, ensure_service_name(thing, name), thing),
          services |-> svcs, warned |-> FALSE]

\* the body of register_service: the registry and the live services after
\* the call, and whether it warned
register_service_body(name, thing, initialized, registry, svcs) ==
    IF ~isclass(thing)
    THEN [registry |-> registry, services |-> Put(svcs, name, thing.id),
          warned |-> FALSE]
    ELSE IF initialized
    THEN [registry |-> registry, services |-> svcs, warned |-> TRUE]
    ELSE [registry |-> Put(registry, ensure_service_name(thing, name), thing),
          services |-> svcs, warned |-> FALSE]

\* register_service(name, service)
register_service(name, thing) ==
    /\ LET r == register_service_body(name, thing, _initialized,
                                      _services_registry, services)
       IN /\ _services_registry' = r.registry
          /\ services' = r.services
          /\ last' = [op |-> "register_service", name |-> name, thing |-> thing,
                      outcome |-> "ok", warned |-> r.warned]
    /\ UNCHANGED auxVars
    /\ UNCHANGED <<_initialized, extensions, _deferred_functions, bundles,
                   babel_bundle, apps>>

\* faulty variant of service: the decorator registers whatever the flag says
ServiceIgnoringInitialized(name, thing, initialized, registry, svcs) ==
    LET r == RegisterIgnoringInitialized(name, thing, initialized, registry, svcs)
    IN [registry |-> r.registry, services |-> r.services,
        warned |-> r.warned, returned |-> thing]

\* the body of service(name)(thing): after initialization the decorator is
\* the identity, before it the decorator calls register_service
service_body(name, thing, initialized, registry, svcs) ==
    IF initialized
    THEN [registry |-> registry, services |-> svcs, warned |-> TRUE,
          returned |-> thing]
    ELSE LET r == register_service_body(name, thing, initialized, registry, svcs)
         IN [registry |-> r.registry, services |-> r.services,
             warned |-> r.warned, returned |-> thing]

\* @service(name) applied to a class or an object
service(name, thing) ==
    /\ LET r == service_body(name, thing, _initialized, _services_registry,
                             services)
       IN /\ _services_registry' = r.registry
          /\ services' = r.services
          /\ last' = [op |-> "service", name |-> name, thing |-> thing,
                      outcome |-> "ok", warned |-> r.warned,
                      returned |-> r.returned]
    /\ UNCHANGED auxVars
    /\ UNCHANGED <<_initialized, extensions, _deferred_functions, bundles,
                   babel_bundle, apps>>

\* A hook stores a framework extension under its name in `extensions`.
register_extension(name, value) ==
    /\ extensions' = Put(extensions, name, value)
    /\ last' = [op |-> "register_extension", name |-> name, outcome |-> "ok"]
    /\ UNCHANGED auxVars
    /\ UNCHANGED <<_initialized, _services_registry, services,
                   _deferred_functions, bundles, babel_bundle, apps>>

-----------------------------------------------------------------------------
\* _init_services.

\* the permutations of a finite set, as sequences
Perms(S) ==
    {s \in [1..Cardinality(S) -> S] :
        \A i, j \in 1..Cardinality(S) : i # j => s[i] # s[j]}

\* the position of x in the sequence s
Pos(s, x) == CHOOSE i \in 1..Len(s) : s[i] = x

\* reversed(list(...))
Reverse(s) == [i \in 1..Len(s) |-> s[Len(s) + 1 - i]]

\* faulty variant of the dependency graph: a service that names itself gets no edge
DagEdgesNoSelfLoop(registry, svcs, exts) ==
    UNION {{<<n, p>> : p \in {q \in registry[n].params :
                                 /\ q # n
                                 /\ \/ q \in DOMAIN svcs
                                    \/ q \in DOMAIN exts
                                    \/ q \in DOMAIN registry}} :
           n \in {m \in DOMAIN registry : callable(registry[m])}}

\* faulty variant of the dependency graph: only live names make an edge, a pending
\* service does not
DagEdgesLiveOnly(registry, svcs, exts) ==
    UNION {{<<n, p>> : p \in {q \in registry[n].params :
                                 \/ q \in DOMAIN svcs
                                 \/ q \in DOMAIN exts}} :
           n \in {m \in DOMAIN registry : callable(registry[m])}}

\* dag.add_edge(name, param_name): an edge for every parameter of a pending
\* callable that names a live service, an extension or a pending service
DagEdges(registry, svcs, exts) ==
    UNION {{<<n, p>> : p \in {q \in registry[n].params :
                                 \/ q \in DOMAIN svcs
                                 \/ q \in DOMAIN exts
                                 \/ q \in DOMAIN registry}} :
           n \in {m \in DOMAIN registry : callable(registry[m])}}

\* dag.add_node(name), and the nodes that add_edge creates
DagNodes(registry, svcs, exts) ==
    {m \in DOMAIN registry : callable(registry[m])}
        \cup {e[2] : e \in DagEdges(registry, svcs, exts)}

\* faulty variant of the sort: a graph with a cycle is sorted in some order
\* instead of being refused
SortDespiteCycle(nodes, edges) ==
    LET sorts == {s \in Perms(nodes) : \A e \in edges : Pos(s, e[1]) < Pos(s, e[2])}
    IN IF sorts = {} THEN Perms(nodes) ELSE sorts

\* nx.topological_sort(dag): the orders in which every edge points forward;
\* the library may return any of them, and raises NetworkXUnfeasible when
\* there is none
topological_sort(nodes, edges) ==
    {s \in Perms(nodes) : \A e \in edges : Pos(s, e[1]) < Pos(s, e[2])}

\* faulty variant of the instantiation order: the topological order is not reversed
NotReversed(s) == s

\* instantiation_order = reversed(list(nx.topological_sort(dag)))
instantiation_order(s) == Reverse(s)

\* the edges of the cycle through the nodes of s, in order
CycleEdges(s) == [i \in 1..Len(s) |-> <<s[i], s[(i % Len(s)) + 1]>>]

\* faulty variant of the message: the edge that closes the cycle is left out
CycleWithoutClosingEdge(nodes, edges) ==
    {SubSeq(CycleEdges(s), 1, Len(s) - 1) :
        s \in {t \in UNION {Perms(T) : T \in (SUBSET nodes) \ {{}}} :
                  \A i \in 1..Len(t) : CycleEdges(t)[i] \in edges}}

\* nx.find_cycle(dag): the edge lists of the cycles of the graph; the
\* library returns the one its traversal meets first
find_cycle(nodes, edges) ==
    {CycleEdges(s) :
        s \in {t \in UNION {Perms(T) : T \in (SUBSET nodes) \ {{}}} :
                  \A i \in 1..Len(t) : CycleEdges(t)[i] \in edges}}

\* the first loop of _init_services: a registry entry that is not callable
\* goes to services as it is
WithNonCallables(registry, svcs) ==
    [n \in (DOMAIN svcs) \cup {m \in DOMAIN registry : ~callable(registry[m])} |->
        IF n \in DOMAIN registry /\ ~callable(registry[n])
        THEN registry[n].id ELSE svcs[n]]

\* faulty variant of the construction: a class is built whatever it is given
BuiltRegardless(cls, params) == {}

\* service(**params), lines 254-261: the required parameters that get no
\* keyword argument; when there are any the call raises TypeError, whose
\* text names them
MissingArguments(cls, params) == cls.params \ DOMAIN params

\* the loop over instantiation_order from position i on.  log collects the
\* instantiations made, with the keyword arguments each received.
RECURSIVE Instantiate(_, _, _, _, _, _, _)
Instantiate(order, i, registry, exts, edges, svcs, log) ==
    IF i > Len(order)
    THEN [services |-> svcs, log |-> log, failed |-> FALSE,
          missing |-> {}, requester |-> None]
    ELSE LET name == order[i]
         IN IF name \in DOMAIN svcs \/ name \in DOMAIN exts
            THEN Instantiate(order, i + 1, registry, exts, edges, svcs, log)
            ELSE LET cls == registry[name]
                     succ == {e[2] : e \in {d \in edges : d[1] = name}}
                     params == [n \in succ |-> Get(exts, n, Get(svcs, n, None))]
                     entry == [name |-> name, params |-> params]
                 IN IF ~isclass(cls)
                    THEN Instantiate(order, i + 1, registry, exts, edges,
                                     Put(svcs, name, "partial_" \o name),
                                     Append(log, entry))
                    ELSE IF MissingArguments(cls, params) = {}
                    THEN Instantiate(order, i + 1, registry, exts, edges,
                                     Put(svcs, name, InstanceOf(name)),
                                     Append(log, entry))
                    ELSE \* service(**params) raises TypeError
                         [services |-> svcs, log |-> log, failed |-> TRUE,
                          missing |-> MissingArguments(cls, params),
                          requester |-> cls.id]

\* _init_services()
_init_services ==
    /\ UNCHANGED auxVars
    /\ UNCHANGED <<_services_registry, extensions, _deferred_functions, bundles,
                   babel_bundle, apps>>
    /\ LET svcs0 == WithNonCallables(_services_registry, services)
           edges == DagEdges(_services_registry, svcs0, extensions)
           nodes == DagNodes(_services_registry, svcs0, extensions)
           sorts == topological_sort(nodes, edges)
       IN IF sorts = {}
          THEN \E cycle \in find_cycle(nodes, edges) :
                  /\ services' = svcs0
                  /\ UNCHANGED _initialized
                  /\ last' = [op |-> "_init_services",
                              outcome |-> "CircularDependency",
                              message |-> cycle]
          ELSE \E s \in sorts :
                  LET order == instantiation_order(s)
                      r == Instantiate(order, 1, _services_registry, extensions,
                                       edges, svcs0, <<>>)
                  IN /\ services' = r.services
                     /\ _initialized' = IF r.failed THEN _initialized ELSE TRUE
                     /\ last' = [op |-> "_init_services",
                                 outcome |-> IF r.failed THEN "MissingService"
                                             ELSE "ok",
                                 order |-> order, instantiated |-> r.log,
                                 missing |-> r.missing,
                                 requester |-> r.requester]

-----------------------------------------------------------------------------
\* inject: a call through the wrapper new_fn.

\* inspect.Parameter.empty: the parameter has no default
NoDefault == "empty"

\* a default value that is not the injectable sentinel
OtherDefault == "default"

\* a parameter of a signature, with its default
Param(name, default) == [name |-> name, default |-> default]

\* a function given to inject; params is its signature, in order
Function(name, params) == [name |-> name, params |-> params]

\* sig.parameters.keys()
ParamNames(fn) == {fn.params[i].name : i \in DOMAIN fn.params}

\* faulty variant of to_inject: the sentinel parameters are candidates even when
\* names were given
NamesAndSentinels(fn, explicit) ==
    explicit \cup {fn.params[i].name :
                      i \in {j \in DOMAIN fn.params : fn.params[j].default = injectable}}

\* to_inject: the names given to inject, or, when it was used bare (no
\* names), the parameters whose default is the sentinel
to_inject(fn, explicit) ==
    IF explicit # {}
    THEN explicit
    ELSE {fn.params[i].name :
             i \in {j \in DOMAIN fn.params : fn.params[j].default = injectable}}

\* faulty variant of the injection loop: a registered value replaces the
\* caller's argument
InjectedOverSupplied(fn, explicit, supplied, exts, svcs) ==
    LET fill == {p \in to_inject(fn, explicit) \cap ParamNames(fn) :
                    p \in DOMAIN exts \/ p \in DOMAIN svcs}
    IN [p \in (DOMAIN supplied) \cup fill |->
           IF p \in DOMAIN exts /\ p \in fill THEN exts[p]
           ELSE IF p \in DOMAIN svcs /\ p \in fill THEN svcs[p]
           ELSE supplied[p]]

\* faulty variant of the injection loop: services are looked up before extensions
InjectServicesFirst(fn, explicit, supplied, exts, svcs) ==
    LET need == ParamNames(fn) \ DOMAIN supplied
        fill == {p \in to_inject(fn, explicit) \cap need :
                    p \in DOMAIN exts \/ p \in DOMAIN svcs}
    IN [p \in (DOMAIN supplied) \cup fill |->
           IF p \in DOMAIN supplied THEN supplied[p]
           ELSE IF p \in DOMAIN svcs THEN svcs[p]
           ELSE exts[p]]

\* fn_kwargs after the injection loop: what the caller supplied, and for
\* every candidate it did not supply the extension of that name, else the
\* service of that name
InjectedKwargs(fn, explicit, supplied, exts, svcs) ==
    LET need == ParamNames(fn) \ DOMAIN supplied
        fill == {p \in to_inject(fn, explicit) \cap need :
                    p \in DOMAIN exts \/ p \in DOMAIN svcs}
    IN [p \in (DOMAIN supplied) \cup fill |->
           IF p \in DOMAIN supplied THEN supplied[p]
           ELSE IF p \in DOMAIN exts THEN exts[p]
           ELSE svcs[p]]

\* the default of parameter p of fn
DefaultOf(fn, p) ==
    fn.params[CHOOSE i \in DOMAIN fn.params : fn.params[i].name = p].default

\* faulty variant of the sentinel check: the last unresolved parameter is reported
LastSentinel(fn, bound) ==
    LET hits == {i \in DOMAIN fn.params : bound[fn.params[i].name] = injectable}
    IN IF hits = {} THEN None
       ELSE fn.params[CHOOSE i \in hits : \A j \in hits : j <= i].name

\* the loop over bound_args.arguments: the first parameter, in signature
\* order, whose value is the sentinel; None when there is none
FirstSentinel(fn, bound) ==
    LET hits == {i \in DOMAIN fn.params : bound[fn.params[i].name] = injectable}
    IN IF hits = {} THEN None
       ELSE fn.params[CHOOSE i \in hits : \A j \in hits : i <= j].name

\* faulty variant of new_fn: the sentinel check is skipped
NewFnWithoutCheck(fn, explicit, supplied, exts, svcs) ==
    LET kwargs == InjectedKwargs(fn, explicit, supplied, exts, svcs)
        unbound == {p \in ParamNames(fn) \ DOMAIN kwargs :
                       DefaultOf(fn, p) = NoDefault}
        bound == [p \in ParamNames(fn) |->
                     IF p \in DOMAIN kwargs THEN kwargs[p] ELSE DefaultOf(fn, p)]
    IN IF ~(DOMAIN supplied \subseteq ParamNames(fn))
       THEN [outcome |-> "TypeError", stage |-> "bind_partial",
             kwargs |-> supplied, param |-> None, received |-> EmptyMap]
       ELSE IF unbound # {}
       THEN [outcome |-> "TypeError", stage |-> "bind", kwargs |-> kwargs,
             param |-> None, received |-> EmptyMap]
       ELSE [outcome |-> "ok", stage |-> "called", kwargs |-> kwargs,
             param |-> None, received |-> bound]

\* new_fn(*fn_args, **fn_kwargs): the outcome of a call through the wrapper.
\* `stage` is the statement the call got to, `received` what the wrapped
\* original callable is called with.
new_fn(fn, explicit, supplied, exts, svcs) ==
    LET kwargs == InjectedKwargs(fn, explicit, supplied, exts, svcs)
        unbound == {p \in ParamNames(fn) \ DOMAIN kwargs :
                       DefaultOf(fn, p) = NoDefault}
        bound == [p \in ParamNames(fn) |->
                     IF p \in DOMAIN kwargs THEN kwargs[p] ELSE DefaultOf(fn, p)]
        k == FirstSentinel(fn, bound)
    IN IF ~(DOMAIN supplied \subseteq ParamNames(fn))
       THEN \* sig.bind_partial: an argument that matches no parameter
            [outcome |-> "TypeError", stage |-> "bind_partial",
             kwargs |-> supplied, param |-> None, received |-> EmptyMap]
       ELSE IF unbound # {}
       THEN \* sig.bind: missing a required argument
            [outcome |-> "TypeError", stage |-> "bind", kwargs |-> kwargs,
             param |-> None, received |-> EmptyMap]
       ELSE IF k # None
       THEN [outcome |-> "ServiceUsageError", stage |-> "check",
             kwargs |-> kwargs, param |-> k, received |-> EmptyMap]
       ELSE [outcome |-> "ok", stage |-> "called", kwargs |-> kwargs,
             param |-> None, received |-> bound]

\* A caller calls the inject-wrapped fn; explicit are the names inject was
\* given ({}: inject was used bare), supplied the arguments of the caller.
call_injected(fn, explicit, supplied) ==
    /\ LET r == new_fn(fn, explicit, supplied, extensions, services)
       IN last' = [op |-> "call", fn |-> fn, explicit |-> explicit,
                   supplied |-> supplied, outcome |-> r.outcome,
                   stage |-> r.stage, kwargs |-> r.kwargs, param |-> r.param,
                   received |-> r.received]
    /\ UNCHANGED auxVars
    /\ UNCHANGED <<_initialized, _services_registry, extensions, services,
                   _deferred_functions, bundles, babel_bundle, apps>>

-----------------------------------------------------------------------------
\* Inputs.

\* the bundle lists handed to init_app
BundleArgs ==
    {NoBundles, List(<<>>),
     List(<<Bundle("plain", FALSE), Bundle("babel1", TRUE), Bundle("babel2", TRUE)>>)}

\* a function with one injectable parameter
FnA == Function("f_a", <<Param("a", injectable)>>)

\* a function with two injectable parameters
FnAB == Function("f_ab", <<Param("a", injectable), Param("b", injectable)>>)

\* a function with a parameter that has no default before an injectable one
FnXA == Function("f_xa", <<Param("x", NoDefault), Param("a", injectable)>>)

\* a function whose parameters carry no sentinel, for inject('a', ...)
FnPlain == Function("f_plain", <<Param("a", NoDefault), Param("b", OtherDefault)>>)

\* the keyword arguments a caller may supply under the names in S
Supplied(S) == UNION {[T -> {"cv"}] : T \in SUBSET S}

\* register_service / service calls of the lifecycle specification, as
\* <<name, service>>: a class under its inferred name and a live object
LifeRegistrations == {<<None, Class("a", {})>>, <<"a", Object("o1")>>}

\* the classes registered in the service-graph specification: no dependency,
\* chains, a diamond, cycles of length one, two and three, and a dependency
\* nobody provides
GraphClasses ==
    {Class("a", {}), Class("a", {"b"}), Class("a", {"a"}),
     Class("b", {"a"}), Class("b", {"c"}),
     Class("c", {"a", "b"}), Class("c", {"a"})}

\* register_service calls of the service-graph specification: every class
\* under its own name, given or inferred, and a live object as "a"
GraphRegistrations ==
    {<<name, cls>> \in (Names \cup {None}) \X GraphClasses :
        name \in {None, cls.id}}
        \cup {<<"a", Object("o1")>>}

\* register_service calls of the injection specification
InjectRegistrations ==
    {<<"a", Class("a", {})>>, <<"a", Object("o1")>>, <<"b", Object("o2")>>}

-----------------------------------------------------------------------------
\* Specifications.  Each one has every operation of the container; they
\* differ in where the inputs are varied.

\* operations with the inputs of the lifecycle specification.  The
\* applications are interchangeable, so the first one built is called
\* "app1".  Extensions and calls through inject, which neither read nor
\* write the flag, the closures or the applications, are left to the other
\* specifications.
Next ==
    \/ \E m \in DeferMethods : DeferredRegistration(m, MaxDeferred)
    \/ \E app \in Apps, bs \in BundleArgs, raiseAt \in 0..(MaxDeferred + 1) :
          /\ app # "app1" => apps["app1"].unchained
          /\ bs.isNone => raiseAt = 0
          /\ init_app(app, bs, raiseAt, MaxInitCalls)
    \/ _reset
    \/ \E r \in LifeRegistrations : register_service(r[1], r[2])
    \/ \E r \in LifeRegistrations : service(r[1], r[2])
    \/ _init_services

\* the lifecycle specification
Spec == Init /\ [][Next]_vars

\* operations with the inputs of the service-graph specification; the
\* deferred-registration methods, which touch no registry, are left out
NextGraph ==
    \/ init_app("app1", List(<<>>), 0, MinorCap)
    \/ _reset
    \/ \E r \in GraphRegistrations : register_service(r[1], r[2])
    \/ service(None, Class("c", {"a", "b"}))
    \/ register_extension("a", "ext_a")
    \/ _init_services
    \/ call_injected(FnA, {}, EmptyMap)

\* the service-graph specification
SpecGraph == Init /\ [][NextGraph]_vars

\* operations with the inputs of the injection specification; the
\* deferred-registration methods, which touch no registry, are left out
NextInject ==
    \/ init_app("app1", List(<<>>), 0, MinorCap)
    \/ _reset
    \/ \E r \in InjectRegistrations : register_service(r[1], r[2])
    \/ service(None, Class("a", {}))
    \/ \E name \in {"a", "b"} : register_extension(name, "ext_" \o name)
    \/ _init_services
    \/ \E fn \in {FnA, FnAB, FnXA, FnPlain},
          explicit \in {{}, {"a"}, {"a", "b"}} :
          \E supplied \in Supplied(ParamNames(fn) \cup {"z"}) :
             call_injected(fn, explicit, supplied)

\* the injection specification
SpecInject == Init /\ [][NextInject]_vars

-----------------------------------------------------------------------------
\* Properties of init_app and of the deferred registrations.

\* how often closure c has been replayed on application a
Replays(a, c) ==
    Cardinality({i \in DOMAIN apps[a].log : apps[a].log[i] = Event("deferred", c)})

\* C1: every init_app call invokes the deferred closures queued so far on
\* the application in the order they were registered and only then the
\* hook-running hook (what it invoked is a prefix of: closure 1, ...,
\* closure n, hook; the whole of it when the call returns); _initialized is
\* set to True only by a call in which the hook has returned, and a call in
\* which a closure or the hook raised leaves _initialized as it was.
C1_InitAppOrder ==
    [][last'.op = "init_app" =>
        LET n == Len(_deferred_functions)
            inv == last'.invoked
        IN /\ Len(inv) <= n + 1
           /\ \A i \in 1..Len(inv) :
                 inv[i] = IF i <= n THEN Event("deferred", _deferred_functions[i])
                          ELSE Event("hook", 0)
           /\ last'.outcome = "ok" =>
                 /\ Len(inv) = n + 1
                 /\ last'.completed = inv
                 /\ _initialized'
           /\ last'.outcome # "ok" =>
                 /\ _initialized' = _initialized
                 /\ Event("hook", 0) \notin {last'.completed[i] :
                                               i \in DOMAIN last'.completed}
    ]_vars

\* C1 witness: an init_app call replayed two closures, ran the hook and
\* marked the container
C1_Witness ==
    /\ last.op = "init_app"
    /\ last.outcome = "ok"
    /\ Len(last.invoked) >= 3
    /\ _initialized

\* C6: a deferred-registration method called while _initialized is True
\* does not raise; it warns, appends its closure to _deferred_functions and
\* applies nothing to any application.
C6_LateDeferral ==
    [][(_initialized /\ last'.op = "defer") =>
        /\ last'.outcome = "ok"
        /\ last'.warned
        /\ _deferred_functions' = Append(_deferred_functions, last'.closure)
        /\ apps' = apps
    ]_vars

\* C6 witness: a closure was deferred after init_app built an application,
\* and that application has not seen it
C6_Witness ==
    /\ last.op = "defer"
    /\ last.warned
    /\ _initialized
    /\ \E a \in Apps :
          /\ Event("hook", 0) \in {apps[a].log[i] : i \in DOMAIN apps[a].log}
          /\ Replays(a, last.closure) = 0
    /\ last.closure = _deferred_functions[Len(_deferred_functions)]

\* C7 as claimed: once an init_app call on an application has completed,
\* every closure queued before it has been replayed on that application
\* exactly once, whatever calls came before.
C7_ReplayedExactlyOnce ==
    (last.op = "init_app" /\ last.outcome = "ok") =>
        \A i \in DOMAIN _deferred_functions :
            Replays(last.app, _deferred_functions[i]) = 1

\* C7 amended: only init_app replays closures; a call that completes replays
\* every closure queued before it exactly once in that call, in registration
\* order, and a call that raises replays a prefix of them.  The queue is
\* never emptied, so each further init_app call replays them again.
C7_ReplayedOncePerCall ==
    [][ /\ last'.op # "init_app" => apps' = apps
        /\ last'.op = "init_app" =>
              LET done == SelectSeq(last'.completed,
                                    LAMBDA e : e.kind = "deferred")
              IN /\ apps' = [apps EXCEPT ![last'.app] =
                                [unchained |-> TRUE,
                                 log |-> (@.log \o <<Event("shell_context_processor", 0)>>)
                                             \o last'.completed]]
                 /\ Len(done) <= Len(_deferred_functions)
                 /\ \A i \in DOMAIN done :
                       done[i] = Event("deferred", _deferred_functions[i])
                 /\ last'.outcome = "ok" => Len(done) = Len(_deferred_functions)
    ]_vars

\* C7 witness: two init_app calls on one application have replayed the same
\* closure twice
C7_Witness ==
    /\ last.op = "init_app"
    /\ last.outcome = "ok"
    /\ Len(_deferred_functions) >= 1
    /\ Replays(last.app, _deferred_functions[1]) = 2

\* C10: _initialized starts False; it changes from False to True only in an
\* init_app or _init_services call that completes, every such call leaves
\* it True, and it changes from True to False only in _reset.
C10_InitializedFlag ==
    /\ ~_initialized
    /\ [][ /\ (~_initialized /\ _initialized') =>
                 /\ last'.op \in {"init_app", "_init_services"}
                 /\ last'.outcome = "ok"
           /\ (last'.op \in {"init_app", "_init_services"} /\ last'.outcome = "ok")
                 => _initialized'
           /\ (_initialized /\ ~_initialized') => last'.op = "_reset"
       ]_vars

\* C10 witness: _init_services completed and set the flag
C10_Witness ==
    /\ last.op = "_init_services"
    /\ last.outcome = "ok"
    /\ last.instantiated # <<>>
    /\ _initialized

-----------------------------------------------------------------------------
\* Properties of service registration.

\* C8: while _initialized is True, registering a class through
\* register_service or through the service decorator raises nothing, warns,
\* leaves _services_registry and services unchanged, and the decorator
\* returns the class it was given.
C8_LateClassRefused ==
    [][(/\ _initialized
        /\ last'.op \in {"register_service", "service"}
        /\ isclass(last'.thing)) =>
        /\ last'.outcome = "ok"
        /\ last'.warned
        /\ _services_registry' = _services_registry
        /\ services' = services
        /\ last'.op = "service" => last'.returned = last'.thing
    ]_vars

\* C8 witness: a class was handed to register_service after initialization
\* and is not pending
C8_Witness ==
    /\ _initialized
    /\ last.op = "register_service"
    /\ isclass(last.thing)
    /\ last.warned
    /\ ensure_service_name(last.thing, last.name) \notin DOMAIN _services_registry

\* C9: register_service with a non-class object puts the object into
\* services under the given name at once, initialized or not, and leaves
\* _services_registry as it was.
C9_LiveObjectRegistered ==
    [][(last'.op = "register_service" /\ ~isclass(last'.thing)) =>
        /\ last'.outcome = "ok"
        /\ services' = Put(services, last'.name, last'.thing.id)
        /\ _services_registry' = _services_registry
        /\ _initialized' = _initialized
    ]_vars

\* C9 witness: an object was registered after initialization and is live
C9_Witness ==
    /\ _initialized
    /\ last.op = "register_service"
    /\ ~isclass(last.thing)
    /\ last.name \in DOMAIN services
    /\ services[last.name] = last.thing.id

-----------------------------------------------------------------------------
\* Properties of _init_services.

\* the names instantiated by the last _init_services call, in order
InstantiatedNames == [i \in DOMAIN last.instantiated |-> last.instantiated[i].name]

PendingEdges ==
    UNION {{<<n, p>> : p \in _services_registry[n].params \cap DOMAIN _services_registry} :
           n \in DOMAIN _services_registry}

\* the transitive closure of a finite relation
RECURSIVE TransitiveClosure(_)
TransitiveClosure(E) ==
    LET next == E \cup {<<q[1][1], q[2][2]>> :
                           q \in {r \in E \X E : r[1][2] = r[2][1]}}
    IN IF next = E THEN E ELSE TransitiveClosure(next)

\* the pending dependencies contain a cycle
PendingCyclic ==
    \E n \in DOMAIN _services_registry : <<n, n>> \in TransitiveClosure(PendingEdges)

\* C3: when the dependencies among pending services contain a cycle,
\* _init_services fails with the circular-dependency error, and the edges
\* its message lists are dependencies that form a closed cycle: each edge
\* starts where the one before it ends and the last one ends where the first
\* starts.
C3_CycleReported ==
    (last.op = "_init_services" /\ PendingCyclic) =>
        /\ last.outcome = "CircularDependency"
        /\ Len(last.message) >= 1
        /\ \A i \in DOMAIN last.message :
              /\ last.message[i] \in PendingEdges
              /\ last.message[i][2] = last.message[(i % Len(last.message)) + 1][1]

\* C3 witness: A -> B -> A was reported with both of its edges
C3_Witness ==
    /\ last.op = "_init_services"
    /\ last.outcome = "CircularDependency"
    /\ last.message \in {<<<<"a", "b">>, <<"b", "a">>>>, <<<<"b", "a">>, <<"a", "b">>>>}

-----------------------------------------------------------------------------
\* Properties of inject.

\* the candidates of the last call: the parameters inject may fill
Candidates == to_inject(last.fn, last.explicit) \cap ParamNames(last.fn)

\* the value registered under name p: the extension when there is one, else
\* the service
Registered(p) == IF p \in DOMAIN extensions THEN extensions[p] ELSE services[p]

\* C4: in a call through an inject wrapper that reaches the original
\* callable, every candidate parameter the caller did not supply is received
\* with the value registered under its name: the extension when the name is
\* a key of extensions, otherwise the service when it is a key of services.
\* The wrapper fills these keyword arguments in every call whose arguments
\* bind to the signature.
C4_InjectedFromRegistries ==
    last.op = "call" =>
        \A p \in Candidates \ DOMAIN last.supplied :
            (p \in DOMAIN extensions \/ p \in DOMAIN services) =>
                /\ last.stage # "bind_partial" =>
                      /\ p \in DOMAIN last.kwargs
                      /\ last.kwargs[p] = Registered(p)
                /\ last.outcome = "ok" => last.received[p] = Registered(p)

\* C4 witness: a name is in both registries and the callable received the
\* extension
C4_Witness ==
    /\ last.op = "call"
    /\ last.outcome = "ok"
    /\ \E p \in Candidates \ DOMAIN last.supplied :
          /\ p \in DOMAIN extensions
          /\ p \in DOMAIN services
          /\ extensions[p] # services[p]
          /\ last.received[p] = extensions[p]

\* the parameters of the last call whose default is the sentinel and that
\* are neither supplied by the caller nor a key of extensions or services
Unresolved ==
    {q \in ParamNames(last.fn) :
        /\ DefaultOf(last.fn, q) = injectable
        /\ q \notin DOMAIN last.supplied
        /\ q \notin DOMAIN extensions
        /\ q \notin DOMAIN services}

\* C5 as claimed: for every such parameter the call fails with a
\* ServiceUsageError that names it, and the original is not invoked.
C5_NamesEveryUnresolved ==
    last.op = "call" =>
        \A p \in Unresolved :
            /\ last.outcome = "ServiceUsageError"
            /\ last.param = p
            /\ last.received = EmptyMap

\* the parameters of the last call that still hold the sentinel when the
\* wrapper checks: default sentinel, not supplied and not injected
HoldingSentinel ==
    {q \in ParamNames(last.fn) :
        /\ DefaultOf(last.fn, q) = injectable
        /\ q \notin DOMAIN last.supplied
        /\ ~(q \in Candidates /\ (q \in DOMAIN extensions \/ q \in DOMAIN services))}

\* the parameters of the last call without a default that are neither
\* supplied nor injected
MissingRequired ==
    {q \in ParamNames(last.fn) :
        /\ DefaultOf(last.fn, q) = NoDefault
        /\ q \notin DOMAIN last.supplied
        /\ ~(q \in Candidates /\ (q \in DOMAIN extensions \/ q \in DOMAIN services))}

\* the position of parameter q in the signature of the last call
SigPos(q) == CHOOSE i \in DOMAIN last.fn.params : last.fn.params[i].name = q

\* C5 amended: when such a parameter exists the call fails and the original
\* is not invoked; it fails with the TypeError of the signature binding when
\* an argument of the caller matches no parameter or a parameter without a
\* default is neither supplied nor injected, and otherwise with a
\* ServiceUsageError naming the first parameter, in signature order, that
\* still holds the sentinel.
C5_FirstUnresolvedNamed ==
    (last.op = "call" /\ Unresolved # {}) =>
        LET binds == /\ DOMAIN last.supplied \subseteq ParamNames(last.fn)
                     /\ MissingRequired = {}
        IN /\ last.received = EmptyMap
           /\ ~binds => last.outcome = "TypeError"
           /\ binds =>
                 /\ last.outcome = "ServiceUsageError"
                 /\ last.param \in HoldingSentinel
                 /\ \A q \in HoldingSentinel : SigPos(last.param) <= SigPos(q)

\* C5 witness: two parameters are unresolved and the error names the first
C5_Witness ==
    /\ last.op = "call"
    /\ Cardinality(Unresolved) = 2
    /\ last.outcome = "ServiceUsageError"
    /\ last.param = "a"

-----------------------------------------------------------------------------
\* The action log: log_action, register_action_table, get_action_log.

\* the categories callers log to: one with a table registered by __init__,
\* one without
Categories == {"flask", "x"}

\* the payloads handed to log_action: dicts with the keys app_name,
\* root_path, kwargs and debug, written as the tuple of their values
Payloads ==
    {<<"a1", "/r1", "k1", "on">>, <<"a2", "/r2", "k2", "off">>}

\* the tables callers register: column names and a converter
Tables ==
    {ActionTableItem(<<"a", "b">>, "pair"), ActionTableItem(<<"a">>, "first")}

\* converter(data): the converter __init__ registers for 'flask', and the
\* converters of Tables
Convert(converter, d) ==
    CASE converter = "flask_row" -> <<d[1], d[2], d[3]>>
      [] converter = "pair" -> <<d[1], d[2]>>
      [] converter = "first" -> <<d[1]>>

\* ActionLogItem(data, timestamp)
ActionLogItem(data, timestamp) == [data |-> data, timestamp |-> timestamp]

\* the number of entries in the whole action log
LogSize ==
    LET RECURSIVE Sum(_)
        Sum(C) == IF C = {} THEN 0
                  ELSE LET c == CHOOSE x \in C : TRUE
                       IN Len(_action_log[c]) + Sum(C \ {c})
    IN Sum(DOMAIN _action_log)

\* faulty variant of logged_value: the registered converter is ignored
LoggedUnconverted(tables, category, data) ==
    data

\* converter(data) in log_action: the identity unless the category has a table
logged_value(tables, category, data) ==
    IF category \in DOMAIN tables
    THEN Convert(tables[category].converter, data)
    ELSE data

\* log_action(category, data); `now` is what datetime.now() returns, a wall
\* clock reading that need not grow from one call to the next.  _action_log
\* is a defaultdict(list): reading a missing category creates it.
log_action(category, data, now, cap) ==
    /\ LogSize < cap
    /\ _action_log' =
           Put(_action_log, category,
               Append(Get(_action_log, category, <<>>),
                      <<logged_value(_action_tables, category, data), now>>))
    /\ last' = [op |-> "log_action", category |-> category, data |-> data,
                outcome |-> "ok"]
    /\ UNCHANGED <<_initialized, _services_registry, extensions, services,
                   _deferred_functions, bundles, babel_bundle, apps,
                   _action_tables, _bundle_stores, _model, decorated, cliVars>>

\* register_action_table(category, columns, converter)
register_action_table(category, columns, converter) ==
    /\ _action_tables' =
           Put(_action_tables, category, ActionTableItem(columns, converter))
    /\ last' = [op |-> "register_action_table", category |-> category,
                column_names |-> columns, outcome |-> "ok"]
    /\ UNCHANGED <<_initialized, _services_registry, extensions, services,
                   _deferred_functions, bundles, babel_bundle, apps,
                   _action_log, _bundle_stores, _model, decorated, cliVars>>

\* faulty variant of sorted: the items stay in the order they were logged
InLoggedOrder(items) ==
    items

\* sorted(items, key=lambda row: row.timestamp): a stable sort
RECURSIVE sorted(_)
sorted(items) ==
    IF items = <<>>
    THEN <<>>
    ELSE LET front == sorted(SubSeq(items, 1, Len(items) - 1))
             x == items[Len(items)]
             k == Cardinality({i \in DOMAIN front :
                                  front[i].timestamp <= x.timestamp})
         IN SubSeq(front, 1, k) \o <<x>> \o SubSeq(front, k + 1, Len(front))

\* _action_log_items_by_category(category)
_action_log_items_by_category(log, category) ==
    LET entries == Get(log, category, <<>>)
    IN sorted([i \in DOMAIN entries |->
                  ActionLogItem(entries[i][1], entries[i][2])])

\* faulty variant of get_action_log: the items are read before the table is
\* looked up
ItemsReadBeforeTable(category) ==
    /\ IF category \notin DOMAIN _action_tables
       THEN last' = [op |-> "get_action_log", category |-> category,
                     outcome |-> "KeyError"]
       ELSE last' = [op |-> "get_action_log", category |-> category,
                     outcome |-> "ok",
                     column_names |-> _action_tables[category].column_names,
                     items |-> _action_log_items_by_category(_action_log,
                                                             category)]
    /\ _action_log' = Put(_action_log, category,
                          Get(_action_log, category, <<>>))
    /\ UNCHANGED <<_initialized, _services_registry, extensions, services,
                   _deferred_functions, bundles, babel_bundle, apps,
                   _action_tables, _bundle_stores, _model, decorated, cliVars>>

\* get_action_log(category): the table is looked up first, a KeyError when
\* the category has none; then the items are read, which creates the
\* category in the defaultdict
get_action_log(category) ==
    /\ IF category \notin DOMAIN _action_tables
       THEN /\ last' = [op |-> "get_action_log", category |-> category,
                        outcome |-> "KeyError"]
            /\ UNCHANGED _action_log
       ELSE /\ last' = [op |-> "get_action_log", category |-> category,
                        outcome |-> "ok",
                        column_names |-> _action_tables[category].column_names,
                        items |-> _action_log_items_by_category(_action_log,
                                                                category)]
            /\ _action_log' = Put(_action_log, category,
                                  Get(_action_log, category, <<>>))
    /\ UNCHANGED <<_initialized, _services_registry, extensions, services,
                   _deferred_functions, bundles, babel_bundle, apps,
                   _action_tables, _bundle_stores, _model, decorated, cliVars>>

\* The action log under every interleaving of its three methods.
NextLog ==
    \/ \E category \in Categories, data \in Payloads, now \in 0..MaxTime :
          log_action(category, data, now, MaxLog)
    \/ \E category \in Categories, t \in Tables :
          register_action_table(category, t.column_names, t.converter)
    \/ \E category \in Categories : get_action_log(category)

SpecLog == Init /\ [][NextLog]_vars

\* the number of positions of sequence s that hold e
Count(s, e) == Cardinality({i \in DOMAIN s : s[i] = e})

\* C11: register_action_table leaves its columns as the category's declared
\* columns and nothing else changes them; every log_action call adds one
\* entry to its category and nothing else adds or removes one; and
\* get_action_log on a category with a table returns the declared columns
\* and the category's entries, each exactly once, ascending by timestamp.
C11_ActionLogSorted ==
    [][/\ last'.op = "register_action_table" =>
              _action_tables'[last'.category].column_names = last'.column_names
       /\ \A c \in DOMAIN _action_tables :
              (last'.op # "register_action_table" \/ last'.category # c) =>
                  /\ c \in DOMAIN _action_tables'
                  /\ _action_tables'[c] = _action_tables[c]
       /\ \A c \in Categories :
              Len(Get(_action_log', c, <<>>)) =
                  Len(Get(_action_log, c, <<>>)) +
                  (IF last'.op = "log_action" /\ last'.category = c THEN 1 ELSE 0)
       /\ (last'.op = "get_action_log" /\ last'.category \in DOMAIN _action_tables) =>
              LET c == last'.category
                  entries == Get(_action_log, c, <<>>)
                  logged == [i \in DOMAIN entries |->
                                ActionLogItem(entries[i][1], entries[i][2])]
              IN /\ last'.outcome = "ok"
                 /\ last'.column_names = _action_tables[c].column_names
                 /\ Len(last'.items) = Len(entries)
                 /\ \A i \in DOMAIN logged :
                        Count(last'.items, logged[i]) = Count(logged, logged[i])
                 /\ \A i, j \in DOMAIN last'.items :
                        i < j => last'.items[i].timestamp <= last'.items[j].timestamp
      ]_vars

\* C11 witness: a table registered by a caller, two entries logged with the
\* clock running backwards, and the log read
C11_Witness ==
    /\ last.op = "get_action_log"
    /\ last.category = "x"
    /\ last.outcome = "ok"
    /\ Len(last.items) = 2
    /\ _action_log["x"][1][2] > _action_log["x"][2][2]

\* C12: log_action never raises; it appends one entry to its category whose
\* value is the payload itself when the category has no table, and the
\* registered converter's output for the payload when it has one.
C12_LogActionConverter ==
    [][last'.op = "log_action" =>
          LET c == last'.category
              old == Get(_action_log, c, <<>>)
              new == Get(_action_log', c, <<>>)
          IN /\ last'.outcome = "ok"
             /\ Len(new) = Len(old) + 1
             /\ SubSeq(new, 1, Len(old)) = old
             /\ c \notin DOMAIN _action_tables =>
                    new[Len(new)][1] = last'.data
             /\ c \in DOMAIN _action_tables =>
                    new[Len(new)][1] =
                        Convert(_action_tables[c].converter, last'.data)
      ]_vars

\* C12 witness: one payload logged unchanged to the category without a
\* table, and one logged through the converter of 'flask'
C12_Witness ==
    /\ last.op = "log_action"
    /\ "x" \notin DOMAIN _action_tables
    /\ "x" \in DOMAIN _action_log
    /\ "flask" \in DOMAIN _action_log
    /\ \E i \in DOMAIN _action_log["x"] : _action_log["x"][i][1] \in Payloads
    /\ \E i \in DOMAIN _action_log["flask"], d \in Payloads :
           _action_log["flask"][i][1] = Convert("flask_row", d)

-----------------------------------------------------------------------------
\* Importing modules: importlib.import_module and utils.safe_import_module.
\*
\* A dotted module name is the sequence of its components and dots, and an
\* error message is a sequence of such pieces and of fixed text, so that
\* `module_name in str(e)` is a test for a contiguous run of pieces.  No
\* component of the names below occurs inside another piece.

\* F(v), with v computed once however often F refers to it
Bind(v, F(_)) == CHOOSE y \in {F(x) : x \in {v}} : TRUE

\* f'{package}.{submodule}'
Dotted(package, submodule) == package \o <<".">> \o submodule

\* the module files of the installation: the error the top-level code of
\* each raises ("ok": none) and the members inspect.getmembers lists for it,
\* in the order it lists them (sorted by name)
ModuleFiles ==
    {[name |-> <<"pkg_a">>, top_level |-> "ok", members |-> <<>>],
     [name |-> <<"pkg_a", ".", "routes">>, top_level |-> "ok",
      members |-> <<[name |-> "helper_a", kind |-> "function"],
                    [name |-> "view_a", kind |-> "view"]>>],
     [name |-> <<"pkg_a", ".", "models">>, top_level |-> "ok",
      members |-> <<[name |-> "ModelA", kind |-> "model"]>>],
     [name |-> <<"pkg_b">>, top_level |-> "ok", members |-> <<>>],
     [name |-> <<"pkg_b", ".", "routes">>, top_level |-> "ok",
      members |-> <<[name |-> "view_b", kind |-> "view"]>>],
     [name |-> <<"pkg_c">>, top_level |-> "ok", members |-> <<>>],
     [name |-> <<"pkg_c", ".", "routes">>, top_level |-> "ok",
      members |-> <<[name |-> "unused_c", kind |-> "view"]>>],
     [name |-> <<"pkg_c", ".", "custom_routes">>, top_level |-> "ok",
      members |-> <<[name |-> "view_c", kind |-> "view"]>>],
     [name |-> <<"pkg_d">>, top_level |-> "ok", members |-> <<>>],
     [name |-> <<"pkg_e">>, top_level |-> "ok", members |-> <<>>],
     [name |-> <<"pkg_f">>, top_level |-> "ok", members |-> <<>>],
     [name |-> <<"pkg_f", ".", "routes">>, top_level |-> "ValueError",
      members |-> <<>>],
     [name |-> <<"pkg_f", ".", "views">>, top_level |-> "import_missing",
      members |-> <<>>],
     [name |-> <<"pkg_f", ".", "models">>, top_level |-> "import_from_self",
      members |-> <<>>]}

\* whether a module file of that name is installed
ModuleExists(name) == \E f \in ModuleFiles : f.name = name

\* the module file of that name
ModuleFile(name) == CHOOSE f \in ModuleFiles : f.name = name

\* the name itself and the names of its parent packages
Prefixes(name) == {SubSeq(name, 1, i) : i \in {j \in DOMAIN name : j % 2 = 1}}

\* no module: the None a function returns
NoModule == <<>>

\* a call that returned a module (named by its dotted name) or NoModule
Returned(module) ==
    [raised |-> FALSE, type |-> None, message |-> <<>>, module |-> module]

\* a call that raised
Raised(type, message) ==
    [raised |-> TRUE, type |-> type, message |-> message, module |-> NoModule]

\* the error the top-level code of an installed module raises, if any
TopLevel(name, top_level) ==
    CASE top_level = "ok" -> Returned(name)
      [] top_level = "ValueError" -> Raised("ValueError", <<"invalid value">>)
      [] top_level = "import_missing" ->
             Raised("ModuleNotFoundError",
                    <<"No module named '", "missing_dep", "'">>)
      [] top_level = "import_from_self" ->
             Raised("ImportError",
                    <<"cannot import name '", "nothing", "' from '">>
                        \o name \o <<"'">>)

\* importlib.import_module(name): the parent packages are imported first, and
\* the first name of the chain that is not installed is the one the
\* ModuleNotFoundError names; otherwise the module's top-level code runs
import_module(name) ==
    Bind({p \in Prefixes(name) : ~ModuleExists(p)},
         LAMBDA missing :
             IF missing # {}
             THEN Raised("ModuleNotFoundError",
                         <<"No module named '">>
                             \o (CHOOSE q \in missing :
                                    \A r \in missing : Len(q) <= Len(r))
                             \o <<"'">>)
             ELSE TopLevel(name, ModuleFile(name).top_level))

\* the names callers hand to safe_import_module
ImportNames ==
    {<<"pkg_a", ".", "routes">>, <<"pkg_d", ".", "routes">>, <<"definitely">>,
     <<"definitely", ".", "does", ".", "not", ".", "exist">>,
     <<"pkg_d", ".", "routes", ".", "api">>,
     <<"pkg_f", ".", "routes">>, <<"pkg_f", ".", "views">>,
     <<"pkg_f", ".", "models">>}

\* except ImportError: ModuleNotFoundError is a subclass of ImportError
IsImportError(type) == type \in {"ImportError", "ModuleNotFoundError"}

\* module_name in str(e)
Contains(message, name) ==
    \E i \in 0..(Len(message) - Len(name)) :
        SubSeq(message, i + 1, i + Len(name)) = name

\* safe_import_module(module_name)
safe_import_module(module_name) ==
    Bind(import_module(module_name),
         LAMBDA r :
             IF r.raised /\ IsImportError(r.type) /\ Contains(r.message, module_name)
             THEN Returned(NoModule)
             ELSE r)

\* A caller calls safe_import_module(module_name).
call_safe_import_module(module_name) ==
    /\ \E r \in {safe_import_module(module_name)} :
           last' = [op |-> "safe_import_module", module_name |-> module_name,
                    raised |-> r.raised, type |-> r.type, message |-> r.message,
                    module |-> r.module]
    /\ UNCHANGED <<_initialized, _services_registry, extensions, services,
                   _deferred_functions, bundles, babel_bundle, apps>>
    /\ UNCHANGED auxVars

-----------------------------------------------------------------------------
\* AppFactoryHook.

\* hook classes: subclasses of AppFactoryHook with their bundle_module_name
\* and the kind of member their type_check accepts
HookClasses ==
    {[name |-> "RoutesHook", bundle_module_name |-> "routes", accepts |-> "view"],
     [name |-> "ModelsHook", bundle_module_name |-> "models", accepts |-> "model"],
     [name |-> "UnsetHook", bundle_module_name |-> None, accepts |-> "view"],
     [name |-> "EmptyHook", bundle_module_name |-> "", accepts |-> "view"]}

\* not x, for None and strings
Falsy(x) == x \in {None, ""}

\* faulty variant of AppFactoryHook_init: only None counts as unset
InitRejectingOnlyNone(hook) ==
    IF hook.bundle_module_name = None
    THEN [outcome |-> "AttributeError",
          message |-> <<hook.name, " is missing a ", "bundle_module_name",
                        " attribute">>]
    ELSE [outcome |-> "ok", message |-> <<>>]

\* AppFactoryHook.__init__
AppFactoryHook_init(hook) ==
    IF Falsy(hook.bundle_module_name)
    THEN [outcome |-> "AttributeError",
          message |-> <<hook.name, " is missing a ", "bundle_module_name",
                        " attribute">>]
    ELSE [outcome |-> "ok", message |-> <<>>]

\* the hooks that can be constructed, on which the methods are called
Hooks == {h \in HookClasses : AppFactoryHook_init(h).outcome = "ok"}

\* BundleOverrideModuleNameAttr.__get__
bundle_override_module_name_attr(hook) ==
    hook.bundle_module_name \o "_module_name"

\* the bundle classes: their module_name, their direct superclass and the
\* class attributes they define themselves
BundleClasses ==
    {[id |-> "Bundle", module_name |-> <<"flask_unchained">>, super |-> "object",
      attrs |-> EmptyMap],
     [id |-> "A", module_name |-> <<"pkg_a">>, super |-> "Bundle",
      attrs |-> EmptyMap],
     [id |-> "B", module_name |-> <<"pkg_b">>, super |-> "Bundle",
      attrs |-> EmptyMap],
     [id |-> "C", module_name |-> <<"pkg_c">>, super |-> "Bundle",
      attrs |-> [a \in {"routes_module_name"} |-> "custom_routes"]],
     [id |-> "D", module_name |-> <<"pkg_d">>, super |-> "Bundle",
      attrs |-> EmptyMap],
     [id |-> "E", module_name |-> <<"pkg_e">>, super |-> "A",
      attrs |-> EmptyMap]}

\* the bundle class of that name
BundleClass(id) == CHOOSE c \in BundleClasses : c.id = id

\* cls.__mro__ of a bundle class
RECURSIVE ClassMro(_)
ClassMro(id) ==
    IF id = "object" THEN <<"object">>
    ELSE <<id>> \o ClassMro(BundleClass(id).super)

\* a bundle class, as init_app receives it ...
BundleClassObject(id) == [kind |-> "class", cls |-> id]

\* ... and an instance of a bundle class
BundleInstance(id) == [kind |-> "instance", cls |-> id]

\* bundle.__class__.__mro__: of a class it is that of type, its metaclass
TypeMro(bundle) ==
    IF bundle.kind = "class" THEN <<"type", "object">> ELSE ClassMro(bundle.cls)

\* getattr(bundle, attr, default): the first class of the mro defining attr
getattr(bundle, attr, default) ==
    LET mro == ClassMro(bundle.cls)
        defining == {i \in DOMAIN mro :
                        /\ mro[i] # "object"
                        /\ attr \in DOMAIN BundleClass(mro[i]).attrs}
    IN IF defining = {}
       THEN default
       ELSE LET i == CHOOSE k \in defining : \A l \in defining : k <= l
            IN BundleClass(mro[i]).attrs[attr]

\* whether the class has a module_name attribute: Bundle and its subclasses
HasModuleName(cls) == cls \notin {"type", "object"}

\* the outcome of import_bundle_module: what a safe_import_module call gave,
\* and the names handed to safe_import_module so far
Imported(r, consulted) ==
    [raised |-> r.raised, type |-> r.type, module |-> r.module,
     consulted |-> consulted]

\* lines 54-57: the first import found nothing
ImportFromSuperclass(super_class, module_name, own) ==
    IF super_class = "Bundle"
    THEN Imported(Returned(NoModule), <<own>>)
    ELSE IF ~HasModuleName(super_class)
    THEN \* super_class.module_name, on a class that has none
         Imported(Raised("AttributeError", <<"module_name">>), <<own>>)
    ELSE Bind(Dotted(BundleClass(super_class).module_name, <<module_name>>),
              LAMBDA inherited :
                  Bind(safe_import_module(inherited),
                       LAMBDA r2 : Imported(r2, <<own, inherited>>)))

\* import_bundle_module(bundle)
import_bundle_module(hook, bundle) ==
    Bind(getattr(bundle, bundle_override_module_name_attr(hook),
                 hook.bundle_module_name),
         LAMBDA module_name :
             Bind(Dotted(BundleClass(bundle.cls).module_name, <<module_name>>),
                  LAMBDA own :
                      Bind(safe_import_module(own),
                           LAMBDA r :
                               IF r.raised \/ r.module # NoModule
                               THEN Imported(r, <<own>>)
                               ELSE ImportFromSuperclass(TypeMro(bundle)[2],
                                                         module_name, own))))

\* the bundles handed to the hooks
BundleObjects ==
    {BundleClassObject(id) : id \in {"A", "B", "C", "D", "E"}}
        \cup {BundleInstance(id) : id \in {"D", "E"}}

\* inspect.getmembers(module, self.type_check)
getmembers(module, hook) ==
    SelectSeq(ModuleFile(module).members, LAMBDA m : m.kind = hook.accepts)

\* the outcome of a collecting call
Collected(raised, type, objects) ==
    [raised |-> raised, type |-> type, objects |-> objects]

\* collect_from_bundle(bundle)
collect_from_bundle(hook, bundle) ==
    Bind(import_bundle_module(hook, bundle),
         LAMBDA r :
             IF r.raised THEN Collected(TRUE, r.type, <<>>)
             ELSE IF r.module = NoModule THEN Collected(FALSE, None, <<>>)
             ELSE Collected(FALSE, None, getmembers(r.module, hook)))

\* collect_objects(bundles), with the objects gathered so far: the error of
\* the first bundle that raises ends the loop
RECURSIVE CollectLoop(_, _, _)
CollectLoop(hook, bs, objects) ==
    IF bs = <<>>
    THEN Collected(FALSE, None, objects)
    ELSE Bind(collect_from_bundle(hook, Head(bs)),
              LAMBDA r :
                  IF r.raised THEN r
                  ELSE CollectLoop(hook, Tail(bs), objects \o r.objects))

\* collect_objects(bundles)
collect_objects(hook, bs) == CollectLoop(hook, bs, <<>>)

\* the lists of at most n bundles
BundleLists(n) == UNION {[1..k -> BundleObjects] : k \in 0..n}

\* A hook class is instantiated.
construct_hook(hook) ==
    /\ LET r == AppFactoryHook_init(hook)
       IN last' = [op |-> "AppFactoryHook", hook |-> hook,
                   outcome |-> r.outcome, message |-> r.message]
    /\ UNCHANGED <<_initialized, _services_registry, extensions, services,
                   _deferred_functions, bundles, babel_bundle, apps>>
    /\ UNCHANGED auxVars

\* hook.import_bundle_module(bundle) is called.
call_import_bundle_module(hook, bundle) ==
    /\ \E r \in {import_bundle_module(hook, bundle)} :
           last' = [op |-> "import_bundle_module", hook |-> hook,
                    bundle |-> bundle, raised |-> r.raised, type |-> r.type,
                    module |-> r.module, consulted |-> r.consulted]
    /\ UNCHANGED <<_initialized, _services_registry, extensions, services,
                   _deferred_functions, bundles, babel_bundle, apps>>
    /\ UNCHANGED auxVars

\* hook.collect_from_bundle(bundle) is called.
call_collect_from_bundle(hook, bundle) ==
    /\ \E r \in {collect_from_bundle(hook, bundle)} :
           last' = [op |-> "collect_from_bundle", hook |-> hook,
                    bundle |-> bundle, raised |-> r.raised, type |-> r.type,
                    objects |-> r.objects]
    /\ UNCHANGED <<_initialized, _services_registry, extensions, services,
                   _deferred_functions, bundles, babel_bundle, apps>>
    /\ UNCHANGED auxVars

\* hook.collect_objects(bundles) is called.
call_collect_objects(hook, bs) ==
    /\ \E r \in {collect_objects(hook, bs)} :
           last' = [op |-> "collect_objects", hook |-> hook, bundles |-> bs,
                    raised |-> r.raised, type |-> r.type, objects |-> r.objects]
    /\ UNCHANGED <<_initialized, _services_registry, extensions, services,
                   _deferred_functions, bundles, babel_bundle, apps>>
    /\ UNCHANGED auxVars

\* Hooks and imports: every call on every input.
NextHook ==
    \/ \E hook \in HookClasses : construct_hook(hook)
    \/ \E module_name \in ImportNames : call_safe_import_module(module_name)
    \/ \E hook \in Hooks, bundle \in BundleObjects :
          call_import_bundle_module(hook, bundle)
    \/ \E hook \in Hooks, bundle \in BundleObjects :
          call_collect_from_bundle(hook, bundle)
    \/ \E hook \in Hooks, bs \in BundleLists(MaxBundles) :
          call_collect_objects(hook, bs)

SpecHook == Init /\ [][NextHook]_vars

\* C13: constructing a hook class whose bundle_module_name is None or empty
\* fails with an error that names the class as missing a bundle_module_name
\* attribute, and constructing one that sets it succeeds.
C13_HookNeedsModuleName ==
    last.op = "AppFactoryHook" =>
        IF last.hook.bundle_module_name \in {None, ""}
        THEN /\ last.outcome = "AttributeError"
             /\ last.message = <<last.hook.name, " is missing a ",
                                 "bundle_module_name", " attribute">>
        ELSE last.outcome = "ok"

\* C13 witness: a hook class with an empty bundle_module_name was refused
C13_Witness ==
    /\ last.op = "AppFactoryHook"
    /\ last.hook.bundle_module_name = ""
    /\ last.outcome = "AttributeError"

\* the target submodule name of a bundle for a hook: the value of the
\* bundle's override attribute when it has one, else the hook's
\* bundle_module_name
TargetName(hook, bundle) ==
    LET attr == hook.bundle_module_name \o "_module_name"
        defining == {c \in BundleClasses :
                        /\ \E i \in DOMAIN ClassMro(bundle.cls) :
                               ClassMro(bundle.cls)[i] = c.id
                        /\ attr \in DOMAIN c.attrs}
    IN IF defining = {}
       THEN hook.bundle_module_name
       ELSE getattr(bundle, attr, hook.bundle_module_name)

\* the dotted name of the bundle's own target submodule
OwnTarget(hook, bundle) ==
    Dotted(BundleClass(bundle.cls).module_name, <<TargetName(hook, bundle)>>)

\* the dotted name of the target submodule in the package of the bundle's
\* direct superclass
InheritedTarget(hook, bundle) ==
    Dotted(BundleClass(BundleClass(bundle.cls).super).module_name,
           <<TargetName(hook, bundle)>>)

\* the members a bundle is to contribute: those of its own target
\* submodule that pass type_check; when it has none, those of its direct
\* superclass's, unless that is Bundle; else none
TargetMembers(hook, bundle) ==
    LET filtered(module) ==
            SelectSeq(ModuleFile(module).members,
                      LAMBDA m : m.kind = hook.accepts)
    IN IF ModuleExists(OwnTarget(hook, bundle))
       THEN filtered(OwnTarget(hook, bundle))
       ELSE IF /\ BundleClass(bundle.cls).super # "Bundle"
               /\ ModuleExists(InheritedTarget(hook, bundle))
       THEN filtered(InheritedTarget(hook, bundle))
       ELSE <<>>

\* the members of the bundles of a list, in the order of the list
RECURSIVE Concatenation(_, _)
Concatenation(hook, bs) ==
    IF bs = <<>> THEN <<>>
    ELSE TargetMembers(hook, Head(bs)) \o Concatenation(hook, Tail(bs))

\* C14 as claimed: collect_objects returns the concatenation, in the order
\* of the list, of the members of each bundle's target submodule that pass
\* type_check.
C14_CollectObjects ==
    last.op = "collect_objects" =>
        /\ ~last.raised
        /\ last.objects = Concatenation(last.hook, last.bundles)

\* C14: a list of bundle classes on which collect_objects raised and
\* returned nothing
C14_Witness ==
    /\ last.op = "collect_objects"
    /\ last.bundles = <<BundleClassObject("A"), BundleClassObject("D")>>
    /\ last.hook.bundle_module_name = "routes"
    /\ last.raised
    /\ last.type = "AttributeError"

\* C15 as claimed: for a bundle class whose target submodule does not exist
\* collect_from_bundle raises nothing and contributes the empty sequence,
\* and collect_objects over a list of such bundle classes completes.
C15_MissingSubmoduleTolerated ==
    /\ (/\ last.op = "collect_from_bundle"
        /\ last.bundle.kind = "class"
        /\ ~ModuleExists(OwnTarget(last.hook, last.bundle))) =>
           /\ ~last.raised
           /\ last.objects = <<>>
    /\ (/\ last.op = "collect_objects"
        /\ \A i \in DOMAIN last.bundles :
               /\ last.bundles[i].kind = "class"
               /\ ~ModuleExists(OwnTarget(last.hook, last.bundles[i]))) =>
           ~last.raised

\* C15: collect_from_bundle raised on a bundle class, a direct subclass of
\* Bundle, that has no routes submodule
C15_Witness ==
    /\ last.op = "collect_from_bundle"
    /\ last.bundle = BundleClassObject("D")
    /\ last.hook.bundle_module_name = "routes"
    /\ last.raised
    /\ last.type = "AttributeError"

\* C16 as claimed: when the bundle's own target submodule is missing and its
\* direct superclass is not Bundle, import_bundle_module asks for the own
\* submodule and then once for the same submodule name in the superclass's
\* package; when the own submodule is found or the direct superclass is
\* Bundle, it asks for the own submodule only.
C16_SuperclassRetry ==
    last.op = "import_bundle_module" =>
        IF /\ ~ModuleExists(OwnTarget(last.hook, last.bundle))
           /\ BundleClass(last.bundle.cls).super # "Bundle"
        THEN last.consulted = <<OwnTarget(last.hook, last.bundle),
                                InheritedTarget(last.hook, last.bundle)>>
        ELSE last.consulted = <<OwnTarget(last.hook, last.bundle)>>

\* C16: import_bundle_module raised, without a second import, on a bundle
\* class that has no routes submodule and whose direct superclass has one
C16_Witness ==
    /\ last.op = "import_bundle_module"
    /\ last.bundle = BundleClassObject("E")
    /\ last.hook.bundle_module_name = "routes"
    /\ last.raised
    /\ last.type = "AttributeError"
    /\ last.consulted = <<<<"pkg_e", ".", "routes">>>>

\* C17 as claimed: safe_import_module returns None without raising when no
\* module of that name exists, and raises the error of the module's
\* top-level code when the module exists and its top-level code raises.
C17_SafeImport ==
    last.op = "safe_import_module" =>
        /\ ~ModuleExists(last.module_name) =>
               /\ ~last.raised
               /\ last.module = NoModule
        /\ (/\ ModuleExists(last.module_name)
            /\ ModuleFile(last.module_name).top_level # "ok") =>
               LET e == TopLevel(last.module_name,
                                 ModuleFile(last.module_name).top_level)
               IN /\ last.raised
                  /\ last.type = e.type
                  /\ last.message = e.message

\* C17: the ModuleNotFoundError for the missing parent package came out of
\* safe_import_module
C17_Witness ==
    /\ last.op = "safe_import_module"
    /\ last.module_name = <<"definitely", ".", "does", ".", "not", ".", "exist">>
    /\ last.raised
    /\ last.type = "ModuleNotFoundError"
    /\ last.message = <<"No module named '", "definitely", "'">>

-----------------------------------------------------------------------------
\* ModelManagerMetaOptionsFactory.model.

\* mapped model classes: two classes named User, the second one registered
\* by a later bundle in place of the first, and a class named Role
ModelClasses == {"User_v1", "User_v2", "Role_v1"}

\* cls.__name__
ClassName(cls) ==
    CASE cls \in {"User_v1", "User_v2"} -> "User"
      [] cls = "Role_v1" -> "Role"

\* the store unchained.sqlalchemy_bundle resolves to, with its models registry
SqlaStore(models) == [models |-> models]

\* A hook of the SQLAlchemy bundle registers a mapped class in the live
\* model registry, under the class's name.
register_model(cls) ==
    /\ LET models == IF "sqlalchemy_bundle" \in DOMAIN _bundle_stores
                     THEN _bundle_stores["sqlalchemy_bundle"].models
                     ELSE EmptyMap
       IN _bundle_stores' =
              Put(_bundle_stores, "sqlalchemy_bundle",
                  SqlaStore(Put(models, ClassName(cls), cls)))
    /\ last' = [op |-> "register_model", model |-> cls, outcome |-> "ok"]
    /\ UNCHANGED <<_initialized, _services_registry, extensions, services,
                   _deferred_functions, bundles, babel_bundle, apps,
                   _action_log, _action_tables, _model, decorated, cliVars>>

\* the setter of model
set_model(model) ==
    /\ _model' = model
    /\ last' = [op |-> "set_model", model |-> model, outcome |-> "ok"]
    /\ UNCHANGED <<_initialized, _services_registry, extensions, services,
                   _deferred_functions, bundles, babel_bundle, apps,
                   _action_log, _action_tables, _bundle_stores, decorated, cliVars>>

\* faulty variant of model_getter: the declared class is returned as it is
ModelAsDeclared(initialized, model, stores) ==
    [outcome |-> "ok", value |-> model]

\* the getter of model; unchained.sqlalchemy_bundle goes through
\* Unchained.__getattr__
model_getter(initialized, model, stores) ==
    IF ~initialized \/ model = None
    THEN [outcome |-> "ok", value |-> model]
    ELSE IF "sqlalchemy_bundle" \notin DOMAIN stores
    THEN [outcome |-> "AttributeError", value |-> None]
    ELSE IF ClassName(model) \notin DOMAIN stores["sqlalchemy_bundle"].models
    THEN [outcome |-> "KeyError", value |-> None]
    ELSE [outcome |-> "ok",
          value |-> stores["sqlalchemy_bundle"].models[ClassName(model)]]

\* The model property is read.
read_model ==
    /\ \E r \in {model_getter(_initialized, _model, _bundle_stores)} :
           last' = [op |-> "model", initialized |-> _initialized,
                    outcome |-> r.outcome, value |-> r.value]
    /\ UNCHANGED <<_initialized, _services_registry, extensions, services,
                   _deferred_functions, bundles, babel_bundle, apps>>
    /\ UNCHANGED auxVars

\* The model manager's options while the container is initialized and reset.
NextModel ==
    \/ init_app("app1", List(<<>>), 0, MinorCap)
    \/ _reset
    \/ \E cls \in ModelClasses : register_model(cls)
    \/ \E model \in ModelClasses \cup {None} : set_model(model)
    \/ read_model

SpecModel == Init /\ [][NextModel]_vars

\* C18: only the setter changes the declared class, and it stores the class
\* assigned; read while _initialized is False, model is exactly that class;
\* read while _initialized is True with a declared class whose name is in the
\* live model registry, it is the class registered under that name.
C18_ModelResolved ==
    [][/\ last'.op = "set_model" => _model' = last'.model
       /\ last'.op # "set_model" => _model' = _model
       /\ last'.op = "model" =>
              /\ ~_initialized =>
                     /\ last'.outcome = "ok"
                     /\ last'.value = _model
              /\ (/\ _initialized
                  /\ _model # None
                  /\ "sqlalchemy_bundle" \in DOMAIN _bundle_stores
                  /\ ClassName(_model) \in
                         DOMAIN _bundle_stores["sqlalchemy_bundle"].models) =>
                     /\ last'.outcome = "ok"
                     /\ last'.value = _bundle_stores["sqlalchemy_bundle"]
                                          .models[ClassName(_model)]
      ]_vars

\* C18 witness: the declared class is User_v1, and the property read after
\* initialization gave the other class registered under the name User
C18_Witness ==
    /\ last.op = "model"
    /\ last.initialized
    /\ _model = "User_v1"
    /\ last.value = "User_v2"

-----------------------------------------------------------------------------
\* Applying inject: the wrapper of lines 152-214.
\*
\* A name is the sequence of its characters.

\* '__init__'
InitName == <<"_", "_", "i", "n", "i", "t", "_", "_">>

\* the callables and classes inject is applied to: two plain functions, one
\* of them with a capitalized name, and a class with an __init__ of its own.
\* Each takes one parameter, a, whose default is the sentinel.
Targets ==
    {[id |-> "view", kind |-> "function", name |-> <<"v", "i", "e", "w">>],
     [id |-> "Job", kind |-> "function", name |-> <<"J", "o", "b">>],
     [id |-> "Mailer", kind |-> "class",
      name |-> <<"M", "a", "i", "l", "e", "r">>]}

\* what a target no decorator has touched looks like: no new_fn around the
\* function (or the class's __init__), no __signature__ on the class, no
\* __di_name__; `applications` counts the applications of inject so far
Undecorated ==
    [layers |-> 0, cls_signature |-> FALSE, di_name |-> <<>>, applications |-> 0]

\* the state of a target
StateOf(t) == Get(decorated, t.id, Undecorated)

\* faulty variant of wrapper: the __signature__ marker is not looked at
WrapperWithoutMarkerCheck(t, st, on) ==
    [layers |-> st.layers + 1,
     cls_signature |-> st.cls_signature \/ (t.kind = "class" /\ on = "object"),
     di_name |-> IF t.kind = "class" THEN InitName ELSE t.name,
     applications |-> st.applications + 1]

\* wrapper(fn).  `on` tells what inject is applied to: the target itself
\* ("object"), or, for a class, its __init__ function inside the class body
\* ("__init__"); only in the first case is cls set.  The function carries a
\* __signature__ exactly when a new_fn wraps it.
wrapper(t, st, on) ==
    IF st.layers > 0
    THEN \* already wrapped: return cls or fn
         [st EXCEPT !.cls_signature = @ \/ (t.kind = "class" /\ on = "object"),
                    !.applications = @ + 1]
    ELSE [layers |-> st.layers + 1,
          cls_signature |-> st.cls_signature \/ (t.kind = "class" /\ on = "object"),
          \* new_fn.__di_name__ = fn.__name__, fn being cls.__init__ for a class
          di_name |-> IF t.kind = "class" THEN InitName ELSE t.name,
          applications |-> st.applications + 1]

\* the object a target's name is bound to: the class, or the function with
\* the new_fn layers around it
Held(t, st) == [id |-> t.id, layers |-> IF t.kind = "class" THEN 0 ELSE st.layers]

\* inject is applied to a target and the result bound to the target's name.
inject_apply(t, on, cap) ==
    /\ on = "__init__" => t.kind = "class"
    /\ StateOf(t).applications < cap
    /\ \E st \in {wrapper(t, StateOf(t), on)} :
           /\ decorated' = Put(decorated, t.id, st)
           /\ last' = [op |-> "inject", target |-> t.id, on |-> on,
                       held |-> Held(t, StateOf(t)), returned |-> Held(t, st)]
    /\ UNCHANGED <<_initialized, _services_registry, extensions, services,
                   _deferred_functions, bundles, babel_bundle, apps,
                   _action_log, _action_tables, _bundle_stores, _model,
                   cliVars>>

\* str.lower, character by character
LowerChar(c) ==
    CASE c = "E" -> "e"
      [] c = "J" -> "j"
      [] c = "M" -> "m"
      [] c = "R" -> "r"
      [] c = "S" -> "s"
      [] c = "T" -> "t"
      [] c = "U" -> "u"
      [] c = "Y" -> "y"
      [] OTHER -> c

\* di_name.lower()
Lower(name) == [i \in DOMAIN name |-> LowerChar(name[i])]

\* lines 197-199: is_constructor, and the word the message uses
ErrorAction(di_name) ==
    IF (\A i \in DOMAIN di_name : di_name[i] # ".") /\ di_name # Lower(di_name)
    THEN "initialized"
    ELSE "called"

\* A decorated target is called without arguments (a class: instantiated).
\* Every new_fn layer around the function runs the injection once.
call_decorated(t) ==
    /\ StateOf(t).layers > 0
    /\ \E r \in {new_fn(FnA, {}, EmptyMap, extensions, services)} :
           last' = [op |-> "call_decorated", target |-> t.id, kind |-> t.kind,
                    passes |-> StateOf(t).layers, outcome |-> r.outcome,
                    received |-> r.received, param |-> r.param,
                    di_name |-> StateOf(t).di_name,
                    action |-> IF r.outcome = "ServiceUsageError"
                               THEN ErrorAction(StateOf(t).di_name)
                               ELSE None]
    /\ UNCHANGED <<_initialized, _services_registry, extensions, services,
                   _deferred_functions, bundles, babel_bundle, apps>>
    /\ UNCHANGED auxVars

\* Decorating and calling, with the injectable service present or absent.
NextDecor ==
    \/ \E t \in Targets, on \in {"object", "__init__"} :
          inject_apply(t, on, MaxApplications)
    \/ \E t \in Targets : call_decorated(t)
    \/ register_service("a", Object("o1"))
    \/ _reset

SpecDecor == Init /\ [][NextDecor]_vars

\* C19: applying inject to a callable or class that already carries a
\* wrapper adds no layer and returns the object it was given, and a call
\* of a decorated target runs the injection exactly once.
C19_ReapplyIsNoOp ==
    [][/\ (last'.op = "inject" /\ last'.target \in DOMAIN decorated) =>
              (decorated[last'.target].layers > 0 =>
                  /\ decorated'[last'.target].layers =
                         decorated[last'.target].layers
                  /\ last'.returned = last'.held)
       /\ last'.op = "call_decorated" => last'.passes = 1
      ]_vars

\* C19 witness: inject was applied twice to a target, which was then called
\* and got the service injected
C19_Witness ==
    /\ last.op = "call_decorated"
    /\ decorated[last.target].applications = 2
    /\ last.outcome = "ok"
    /\ last.received["a"] = "o1"

\* C20 as claimed: the ServiceUsageError says 'initialized without' when
\* inject wrapped a class and 'called without' when it wrapped a plain
\* function.
C20_ErrorWording ==
    (last.op = "call_decorated" /\ last.outcome = "ServiceUsageError") =>
        last.action = IF last.kind = "class" THEN "initialized" ELSE "called"

\* C20: the error of a class decorated with inject and instantiated without
\* the service speaks of __init__ being called
C20_Witness ==
    /\ last.op = "call_decorated"
    /\ last.kind = "class"
    /\ last.outcome = "ServiceUsageError"
    /\ last.di_name = InitName
    /\ last.action = "called"

-----------------------------------------------------------------------------
\* More properties of _init_services.

\* the constructor parameters of the pending service n that name neither a
\* pending service, a live service nor an extension
Unmet(n) ==
    {p \in _services_registry[n].params :
        /\ p \notin DOMAIN _services_registry
        /\ p \notin DOMAIN services
        /\ p \notin DOMAIN extensions}

\* the pending services with such a parameter
Wanting == {n \in DOMAIN _services_registry : Unmet(n) # {}}

\* those of them the instantiation loop does not skip (line 243)
WantingAndBuilt ==
    {n \in Wanting : n \notin DOMAIN services /\ n \notin DOMAIN extensions}

\* C21 as claimed: whenever a pending service has a parameter nothing
\* provides, _init_services fails with the error that names such a service
\* and its missing parameters.
C21_MissingServiceAborts ==
    [][(last'.op = "_init_services" /\ Wanting # {}) =>
          /\ last'.outcome = "MissingService"
          /\ \E n \in Wanting :
                /\ last'.requester = _services_registry[n].id
                /\ last'.missing = Unmet(n)
      ]_vars

\* C21: when the pending dependencies have no cycle and a pending class that
\* is not already a key of services or extensions has a parameter nothing
\* provides, _init_services fails with the error that names one such class
\* and exactly its unprovided parameters, and _initialized keeps its value.
C21_MissingServiceReported ==
    [][(last'.op = "_init_services" /\ WantingAndBuilt # {} /\ ~PendingCyclic) =>
          /\ last'.outcome = "MissingService"
          /\ _initialized' = _initialized
          /\ \E n \in WantingAndBuilt :
                /\ last'.requester = _services_registry[n].id
                /\ last'.missing = Unmet(n)
                /\ n \notin DOMAIN services'
      ]_vars

\* C21 witness: B, which depends on C, was pending with no C anywhere, and
\* the call failed naming C and B
C21_Witness ==
    /\ last.op = "_init_services"
    /\ last.outcome = "MissingService"
    /\ last.requester = "b"
    /\ last.missing = {"c"}
    /\ "c" \notin DOMAIN _services_registry
    /\ ~_initialized

-----------------------------------------------------------------------------
\* init_app and the localization bundle.

\* the bundle classes of a build: one plain bundle and two subclasses of
\* BabelBundle
InitBundles == {Bundle("plain", FALSE), Bundle("babel1", TRUE), Bundle("babel2", TRUE)}

\* the bundle lists of at most n bundles
InitBundleLists(n) == {List(s) : s \in UNION {[1..k -> InitBundles] : k \in 0..n}}

\* init_app with every short bundle list, or with no list at all, on a
\* container that may hold a deferred closure, which may raise
NextBabel ==
    \/ DeferredRegistration("before_request", MinorCap)
    \/ \E bs \in InitBundleLists(MaxBundles) \cup {NoBundles}, raiseAt \in 0..1 :
          /\ bs.isNone => raiseAt = 0
          /\ init_app("app1", bs, raiseAt, MaxInitCalls)
    \/ _reset

SpecBabel == Init /\ [][NextBabel]_vars

\* C22: after init_app has returned, babel_bundle is the first bundle of the
\* list that is a subclass of the localization bundle type, and None when
\* the list holds no such bundle or is empty.
C22_FirstBabelBundle ==
    (last.op = "init_app" /\ last.outcome = "ok") =>
        /\ \A i \in DOMAIN bundles.items :
              (/\ bundles.items[i].babel
               /\ \A j \in 1..(i - 1) : ~bundles.items[j].babel)
              => babel_bundle = bundles.items[i].id
        /\ (\A i \in DOMAIN bundles.items : ~bundles.items[i].babel)
              => babel_bundle = None

\* C22 witness: init_app returned for a list of two localization bundles,
\* and babel_bundle is the first of them
C22_Witness ==
    /\ last.op = "init_app"
    /\ last.outcome = "ok"
    /\ Len(bundles.items) = 2
    /\ bundles.items[1].id = "babel2"
    /\ bundles.items[2].id = "babel1"
    /\ babel_bundle = "babel2"

\* C22 second case: a later init_app with a list of plain bundles only
\* returned and babel_bundle is None again
C22_WitnessNone ==
    /\ last.op = "init_app"
    /\ last.outcome = "ok"
    /\ InitCalls = 2
    /\ Len(bundles.items) = 1
    /\ babel_bundle = None

-----------------------------------------------------------------------------
\* The command-line layer: click.py.

\* the names of the arguments built
ArgumentNames == {"query", "path"}

\* the hidden argument of Argument.__init__: None, or the flag
HiddenArgs == {None, "True", "False"}

\* the help argument: None, the empty string, or a help text
HelpArgs == {None, "", "what to look for"}

\* Argument(param_decls, required, help, hidden, **attrs): the fields of the
\* object.  click.Argument.__init__ resolves required, nargs, metavar and
\* default; `required` here is the resolved value.
Argument(name, required, help, hidden, nargs, metavar, default) ==
    [name |-> name, required |-> required, nargs |-> nargs,
     metavar |-> metavar, default |-> default, help |-> help,
     \* hidden if hidden is not None else not help
     hidden |-> IF hidden # None THEN hidden = "True" ELSE Falsy(help)]

\* faulty variant of make_metavar: the ellipsis follows the closing bracket
MetavarEllipsisOutside(arg) ==
    IF arg.metavar # None
    THEN arg.metavar
    ELSE (IF arg.required THEN "" ELSE "[")
            \o "<" \o arg.name \o ">"
            \o (IF ~arg.required THEN "]" ELSE "")
            \o (IF arg.nargs # 1 THEN ", ..." ELSE "")

\* Argument.make_metavar
make_metavar(arg) ==
    IF arg.metavar # None
    THEN arg.metavar
    ELSE (IF arg.required THEN "" ELSE "[")
            \o "<" \o arg.name \o ">"
            \o (IF arg.nargs # 1 THEN ", ..." ELSE "")
            \o (IF ~arg.required THEN "]" ELSE "")

\* what get_help_record returns for a hidden argument (None)
NoRecord == <<>>

\* '; '.join(extra)
JoinExtra(extra) ==
    IF Len(extra) = 0 THEN ""
    ELSE IF Len(extra) = 1 THEN extra[1]
    ELSE extra[1] \o "; " \o extra[2]

\* Argument.get_help_record(ctx): None when hidden, else the pair of the
\* declaration with its metavar and the help text with its extras.  An
\* argument has one declaration, its name, and no secondary one.
get_help_record(arg) ==
    IF arg.hidden
    THEN NoRecord
    ELSE LET help == IF Falsy(arg.help) THEN "" ELSE arg.help
             extra == (IF arg.default # None
                       THEN <<"default: " \o arg.default>> ELSE <<>>)
                      \o (IF arg.required THEN <<"required">> ELSE <<>>)
         IN <<arg.name \o ": " \o make_metavar(arg),
              IF extra # <<>>
              THEN (IF help # "" THEN help \o "  " ELSE "")
                       \o "[" \o JoinExtra(extra) \o "]"
              ELSE help>>

\* an Argument is built and kept under its name
Argument_init(name, required, help, hidden, nargs, metavar, default) ==
    /\ arguments' = Put(arguments, name,
                        Argument(name, required, help, hidden, nargs, metavar,
                                 default))
    /\ last' = [op |-> "Argument", name |-> name, help |-> help,
                hidden |-> hidden]
    /\ UNCHANGED <<_initialized, _services_registry, extensions, services,
                   _deferred_functions, bundles, babel_bundle, apps,
                   _action_log, _action_tables, _bundle_stores, _model,
                   decorated, DEFAULT_CONTEXT_SETTINGS, commands, environ>>

\* the help page asks an argument for its help record
call_get_help_record(name) ==
    /\ name \in DOMAIN arguments
    /\ \E r \in {get_help_record(arguments[name])} :
           last' = [op |-> "get_help_record", name |-> name,
                    record |-> r]
    /\ UNCHANGED <<_initialized, _services_registry, extensions, services,
                   _deferred_functions, bundles, babel_bundle, apps>>
    /\ UNCHANGED auxVars

\* building arguments and asking for their help records; the second
\* argument is built with the hidden flag, the metavar and the default left
\* to click
NextArgument ==
    \/ \E name \in ArgumentNames, required \in BOOLEAN, help \in HelpArgs,
          hidden \in HiddenArgs, nargs \in {1, -1},
          metavar \in {None, "QUERY"}, default \in {None, "x"} :
          /\ name = "path" => (hidden = None /\ metavar = None /\ default = None)
          /\ Argument_init(name, required, help, hidden, nargs, metavar, default)
    \/ \E name \in ArgumentNames : call_get_help_record(name)

SpecArgument == Init /\ [][NextArgument]_vars

\* the rendering of an argument the help page is to show: <name> when
\* required, [<name>] when optional, with ', ...' after <name> when the
\* argument takes more than one value
Rendered(arg) ==
    CASE arg.required /\ arg.nargs = 1 -> "<" \o arg.name \o ">"
      [] arg.required /\ arg.nargs # 1 -> "<" \o arg.name \o ">, ..."
      [] ~arg.required /\ arg.nargs = 1 -> "[<" \o arg.name \o ">]"
      [] ~arg.required /\ arg.nargs # 1 -> "[<" \o arg.name \o ">, ...]"

\* C23: an Argument built without an explicit hidden flag is hidden exactly
\* when it has no help text; a hidden argument yields no help record, and
\* one that is shown (and was given no metavar of its own) yields a record
\* that renders it as <name> or [<name>], with ', ...' inside the bracket
\* when nargs is not 1.
C23_ArgumentHelpRecord ==
    [][/\ (last'.op = "Argument" /\ last'.hidden = None) =>
              (arguments'[last'.name].hidden <=> last'.help \in {None, ""})
       /\ last'.op = "get_help_record" =>
              /\ arguments[last'.name].hidden => last'.record = NoRecord
              /\ ~arguments[last'.name].hidden =>
                    /\ Len(last'.record) = 2
                    /\ arguments[last'.name].metavar = None =>
                          last'.record[1] =
                              last'.name \o ": " \o Rendered(arguments[last'.name])
      ]_vars

\* C23 witness: an optional argument taking several values, built with a
\* help text, yielded the record 'query: [<query>, ...]'
C23_Witness ==
    /\ last.op = "get_help_record"
    /\ last.name = "query"
    /\ ~Falsy(arguments["query"].help)
    /\ ~arguments["query"].required
    /\ arguments["query"].nargs = -1
    /\ last.record # NoRecord
    /\ last.record[1] = "query: [<query>, ...]"

\* C23 second case: an argument built without help text and without a
\* hidden flag yielded no record
C23_WitnessHidden ==
    /\ last.op = "get_help_record"
    /\ arguments[last.name].help = None
    /\ arguments[last.name].hidden
    /\ last.record = NoRecord

-----------------------------------------------------------------------------
\* Context settings of commands and groups.

\* a context_settings argument: a dict, or None
Settings(m) == [isNone |-> FALSE, map |-> m]

\* context_settings=None, the default
NoSettings == [isNone |-> TRUE, map |-> EmptyMap]

\* the context_settings arguments callers pass: none, an empty dict, dicts
\* with other keys, and one that sets help_option_names itself
ContextSettingsArgs ==
    {NoSettings,
     Settings(EmptyMap),
     Settings([max_content_width |-> 120]),
     Settings([max_content_width |-> 80, auto_envvar_prefix |-> "APP"]),
     Settings([help_option_names |-> <<"--help">>]),
     Settings([help_option_names |-> <<"--help">>, max_content_width |-> 80])}

\* rv.update(context_settings)
Update(d, m) == [k \in (DOMAIN d) \cup (DOMAIN m) |-> IF k \in DOMAIN m THEN m[k] ELSE d[k]]

\* faulty variant of _update_ctx_settings: the defaults are updated in place
UpdateWithoutCopy(defaults, context_settings) ==
    IF context_settings.isNone \/ context_settings.map = EmptyMap
    THEN [rv |-> defaults, defaults |-> defaults]
    ELSE [rv |-> Update(defaults, context_settings.map),
          defaults |-> Update(defaults, context_settings.map)]

\* _update_ctx_settings(context_settings): the dict returned, and
\* DEFAULT_CONTEXT_SETTINGS after the call
_update_ctx_settings(defaults, context_settings) ==
    IF context_settings.isNone \/ context_settings.map = EmptyMap
    THEN \* not context_settings: the copy
         [rv |-> defaults, defaults |-> defaults]
    ELSE [rv |-> Update(defaults, context_settings.map), defaults |-> defaults]

\* the classes whose __init__ merges the context settings
CommandClasses == {"Command", "Group"}

\* Command(name, context_settings=...) or Group(name, context_settings=...):
\* click keeps the merged dict as the object's context_settings
Command_init(cls, name, context_settings) ==
    /\ \E r \in {_update_ctx_settings(DEFAULT_CONTEXT_SETTINGS, context_settings)} :
           /\ commands' = Put(commands, name,
                              [cls |-> cls, context_settings |-> r.rv])
           /\ DEFAULT_CONTEXT_SETTINGS' = r.defaults
    /\ last' = [op |-> "Command", cls |-> cls, name |-> name,
                context_settings |-> context_settings]
    /\ UNCHANGED <<_initialized, _services_registry, extensions, services,
                   _deferred_functions, bundles, babel_bundle, apps,
                   _action_log, _action_tables, _bundle_stores, _model,
                   decorated, arguments, environ>>

\* building commands and groups
NextCommand ==
    \E cls \in CommandClasses, name \in {"run", "db"},
       context_settings \in ContextSettingsArgs :
        Command_init(cls, name, context_settings)

SpecCommand == Init /\ [][NextCommand]_vars

\* C24: whatever context_settings the caller passes, none, an empty dict or
\* a dict with other keys, the context settings of the Command or Group
\* built hold help_option_names = ('-h', '--help') and every key the caller
\* passed with the caller's value, and DEFAULT_CONTEXT_SETTINGS is what it
\* was at import.
C24_ContextSettingsMerged ==
    /\ DEFAULT_CONTEXT_SETTINGS = [help_option_names |-> <<"-h", "--help">>]
    /\ last.op = "Command" =>
          LET given == last.context_settings.map
              effective == commands[last.name].context_settings
          IN /\ \A k \in DOMAIN given :
                    k \in DOMAIN effective /\ effective[k] = given[k]
             /\ "help_option_names" \notin DOMAIN given =>
                    /\ "help_option_names" \in DOMAIN effective
                    /\ effective["help_option_names"] = <<"-h", "--help">>

\* C24 witness: a Group built with two other keys has both of them and the
\* help aliases, after an earlier command was built with settings of its own
C24_Witness ==
    /\ last.op = "Command"
    /\ last.cls = "Group"
    /\ DOMAIN last.context_settings.map = {"max_content_width", "auto_envvar_prefix"}
    /\ DOMAIN commands = {"run", "db"}
    /\ DOMAIN commands[last.name].context_settings =
           {"help_option_names", "max_content_width", "auto_envvar_prefix"}

-----------------------------------------------------------------------------
\* get_boolean_env.  A value of the environment is the sequence of its
\* characters.

\* the environment variables read
EnvNames == {"FLASK_DEBUG", "SQLALCHEMY_ECHO"}

\* values a variable is set to
EnvValues ==
    {<<"t", "r", "u", "e">>, <<"T", "r", "u", "e">>, <<"T", "R", "U", "E">>,
     <<"y", "e", "s">>, <<"Y", "E", "S">>, <<"y">>, <<"Y">>, <<"1">>,
     <<>>, <<"0">>, <<"n", "o">>, <<"o", "n">>, <<"f", "a", "l", "s", "e">>,
     <<"t", "r", "u", "e", " ">>, <<"1", "1">>}

\* ['true', 'yes', 'y', '1']
TruthyValues == {<<"t", "r", "u", "e">>, <<"y", "e", "s">>, <<"y">>, <<"1">>}

\* os.getenv(name, default)
getenv(env, name, default) == Get(env, name, default)

\* faulty variant of get_boolean_env: the value is compared as it is written
BooleanEnvCaseSensitive(env, name, default) ==
    LET d == IF default THEN <<"t", "r", "u", "e">>
             ELSE <<"f", "a", "l", "s", "e">>
    IN getenv(env, name, d) \in TruthyValues

\* get_boolean_env(name, default)
get_boolean_env(env, name, default) ==
    LET d == IF default THEN <<"t", "r", "u", "e">>
             ELSE <<"f", "a", "l", "s", "e">>
    IN Lower(getenv(env, name, d)) \in TruthyValues

\* os.environ[name] = value
setenv(name, value) ==
    /\ environ' = Put(environ, name, value)
    /\ last' = [op |-> "setenv", name |-> name]
    /\ UNCHANGED <<_initialized, _services_registry, extensions, services,
                   _deferred_functions, bundles, babel_bundle, apps,
                   _action_log, _action_tables, _bundle_stores, _model,
                   decorated, DEFAULT_CONTEXT_SETTINGS, commands, arguments>>

\* del os.environ[name]
unsetenv(name) ==
    /\ name \in DOMAIN environ
    /\ environ' = [k \in (DOMAIN environ) \ {name} |-> environ[k]]
    /\ last' = [op |-> "unsetenv", name |-> name]
    /\ UNCHANGED <<_initialized, _services_registry, extensions, services,
                   _deferred_functions, bundles, babel_bundle, apps,
                   _action_log, _action_tables, _bundle_stores, _model,
                   decorated, DEFAULT_CONTEXT_SETTINGS, commands, arguments>>

\* get_boolean_env(name, default) is called
call_get_boolean_env(name, default) ==
    /\ last' = [op |-> "get_boolean_env", name |-> name, default |-> default,
                returned |-> get_boolean_env(environ, name, default)]
    /\ UNCHANGED <<_initialized, _services_registry, extensions, services,
                   _deferred_functions, bundles, babel_bundle, apps>>
    /\ UNCHANGED auxVars

\* the environment changes and is read
NextEnv ==
    \/ \E name \in EnvNames, value \in EnvValues : setenv(name, value)
    \/ \E name \in EnvNames : unsetenv(name)
    \/ \E name \in EnvNames, default \in BOOLEAN : call_get_boolean_env(name, default)

SpecEnv == Init /\ [][NextEnv]_vars

\* the upper-case letters of the truthy words, folded
Folded(c) ==
    CASE c = "T" -> "t" [] c = "R" -> "r" [] c = "U" -> "u" [] c = "E" -> "e"
      [] c = "Y" -> "y" [] c = "S" -> "s" [] OTHER -> c

\* C25: get_boolean_env(name, default) returns default when the variable is
\* unset; when it is set it returns True exactly when the value, lower-cased,
\* is 'true', 'yes', 'y' or '1', whatever default is, so False for the empty
\* string.
C25_BooleanEnv ==
    last.op = "get_boolean_env" =>
        IF last.name \notin DOMAIN environ
        THEN last.returned = last.default
        ELSE last.returned <=>
                 [i \in DOMAIN environ[last.name] |-> Folded(environ[last.name][i])]
                     \in {<<"t", "r", "u", "e">>, <<"y", "e", "s">>, <<"y">>, <<"1">>}

\* C25 witness: the variable was set to 'YES' and the call with default
\* False returned True
C25_Witness ==
    /\ last.op = "get_boolean_env"
    /\ last.name \in DOMAIN environ
    /\ environ[last.name] = <<"Y", "E", "S">>
    /\ ~last.default
    /\ last.returned

\* C25 other cases: unset with default True returned True
C25_WitnessUnset ==
    /\ last.op = "get_boolean_env"
    /\ last.name \notin DOMAIN environ
    /\ last.default
    /\ last.returned

\* C25 other cases: set to the empty string with default True returned False
C25_WitnessEmpty ==
    /\ last.op = "get_boolean_env"
    /\ last.name \in DOMAIN environ
    /\ environ[last.name] = <<>>
    /\ last.default
    /\ ~last.returned

-----------------------------------------------------------------------------
\* More properties of inject.

\* C26: in a call through an inject wrapper, every argument the caller
\* supplied keeps the caller's value: it is the value in the keyword
\* arguments after the injection loop, and the value the original callable
\* receives, whether or not an extension or a service of that name is
\* registered.
C26_SuppliedKept ==
    last.op = "call" =>
        \A p \in DOMAIN last.supplied :
            /\ p \in DOMAIN last.kwargs /\ last.kwargs[p] = last.supplied[p]
            /\ last.outcome = "ok" => last.received[p] = last.supplied[p]

\* C26 witness: the caller supplied a parameter that is a candidate and the
\* name of an extension and of a service, and the callable received the
\* caller's value
C26_Witness ==
    /\ last.op = "call"
    /\ last.outcome = "ok"
    /\ \E p \in Candidates \cap DOMAIN last.supplied :
          /\ p \in DOMAIN extensions
          /\ p \in DOMAIN services
          /\ last.received[p] = last.supplied[p]
          /\ last.received[p] # extensions[p]
          /\ last.received[p] # services[p]

\* the parameters of the last call whose default is the sentinel
SentinelParams ==
    {q \in ParamNames(last.fn) : DefaultOf(last.fn, q) = injectable}

\* C27: in a call whose arguments bind to the signature, when inject was
\* given names a parameter outside them that the caller did not supply gets
\* no keyword argument from the registries, and if its default is the
\* sentinel the call fails with a ServiceUsageError; when inject was used
\* bare, the parameters filled from the registries are exactly those with
\* the sentinel default that the caller did not supply and that name an
\* extension or a service.
C27_ExplicitNamesOnly ==
    (last.op = "call" /\ last.stage # "bind_partial") =>
        /\ last.explicit # {} =>
              \A p \in ParamNames(last.fn) \ (last.explicit \cup DOMAIN last.supplied) :
                  /\ p \notin DOMAIN last.kwargs
                  /\ (p \in SentinelParams /\ last.stage # "bind") =>
                        last.outcome = "ServiceUsageError"
        /\ last.explicit = {} =>
              (DOMAIN last.kwargs) \ (DOMAIN last.supplied) =
                  {p \in SentinelParams \ DOMAIN last.supplied :
                      p \in DOMAIN extensions \/ p \in DOMAIN services}

\* C27 witness: inject('a') wrapped a function whose b also defaults to the
\* sentinel; a service b is registered, the caller supplied neither, and the
\* call failed naming b
C27_Witness ==
    /\ last.op = "call"
    /\ last.explicit = {"a"}
    /\ last.fn = FnAB
    /\ last.supplied = EmptyMap
    /\ "b" \in DOMAIN services
    /\ "a" \in DOMAIN last.kwargs
    /\ last.outcome = "ServiceUsageError"
    /\ last.param = "b"

-----------------------------------------------------------------------------
\* What _init_services leaves behind.

\* C28: when the pending dependencies contain a cycle, _init_services fails
\* with the circular-dependency error before it instantiates anything:
\* services, extensions and _services_registry are what they were, and
\* _initialized keeps its value.
C28_CycleLeavesStateAlone ==
    [][(last'.op = "_init_services" /\ PendingCyclic) =>
          /\ last'.outcome = "CircularDependency"
          /\ services' = services
          /\ extensions' = extensions
          /\ _services_registry' = _services_registry
          /\ _initialized' = _initialized
      ]_vars

\* C28 witness: with a live service and another class pending, B -> C -> B
\* was reported on a container that init_app had marked initialized, and it
\* is still marked so
C28_Witness ==
    /\ last.op = "_init_services"
    /\ last.outcome = "CircularDependency"
    /\ <<"b", "c">> \in PendingEdges
    /\ <<"c", "b">> \in PendingEdges
    /\ DOMAIN services = {"a"}
    /\ DOMAIN _services_registry = {"b", "c"}
    /\ _initialized

\* C29: after _init_services has returned, _initialized is True and every
\* pending name is a key of services or extensions; every keyword argument a
\* service was instantiated with is the live entry of that name, the
\* extension when there is one and else the service, and never None; and no
\* service was instantiated under a name that was already a key of services
\* or extensions when the call began.
C29_AfterInitServices ==
    [][(last'.op = "_init_services" /\ last'.outcome = "ok") =>
          /\ _initialized'
          /\ DOMAIN _services_registry' \subseteq
                 (DOMAIN services') \cup (DOMAIN extensions')
          /\ \A i \in DOMAIN last'.instantiated :
                LET made == last'.instantiated[i]
                IN /\ made.name \notin (DOMAIN services) \cup (DOMAIN extensions)
                   /\ made.name \in DOMAIN services'
                   /\ \A n \in DOMAIN made.params :
                         /\ made.params[n] # None
                         /\ made.params[n] = IF n \in DOMAIN extensions'
                                             THEN extensions'[n]
                                             ELSE services'[n]
      ]_vars

\* C29 witness: of three pending classes one was already live under its
\* name and was skipped, and the others were instantiated, the last with
\* the live values of both its dependencies
C29_Witness ==
    /\ last.op = "_init_services"
    /\ last.outcome = "ok"
    /\ _initialized
    /\ DOMAIN _services_registry = {"a", "b", "c"}
    /\ services["a"] = "o1"
    /\ InstantiatedNames = <<"b", "c">>
    /\ DOMAIN last.instantiated[2].params = {"a", "b"}
    /\ last.instantiated[2].params["a"] = "o1"
    /\ last.instantiated[2].params["b"] = InstanceOf("b")

-----------------------------------------------------------------------------
\* The action log of a category without a table.

\* C30: get_action_log on a category that has no action table fails with a
\* KeyError, whether or not entries have been logged to the category, and
\* changes neither _action_log nor _action_tables.
C30_NoTableKeyError ==
    [][(last'.op = "get_action_log" /\ last'.category \notin DOMAIN _action_tables) =>
          /\ last'.outcome = "KeyError"
          /\ _action_log' = _action_log
          /\ _action_tables' = _action_tables
      ]_vars

\* C30 witness: two entries were logged to a category without a table and
\* reading it failed
C30_Witness ==
    /\ last.op = "get_action_log"
    /\ last.outcome = "KeyError"
    /\ last.category \notin DOMAIN _action_tables
    /\ last.category \in DOMAIN _action_log
    /\ Len(_action_log[last.category]) = 2

-----------------------------------------------------------------------------
\* init_app without a bundle list.

\* C31 as claimed: init_app with bundles omitted completes like init_app
\* with an empty list: babel_bundle is None, every deferred closure and then
\* the hook have run on the application, and the container is initialized.
C31_NoneLikeEmptyList ==
    (last.op = "init_app" /\ bundles.isNone) =>
        /\ last.outcome = "ok"
        /\ babel_bundle = None
        /\ last.completed = InitAppInvocations(_deferred_functions)
        /\ _initialized

\* C31: init_app with bundles omitted raised TypeError on a container with a
\* deferred closure: nothing was replayed, the container is not initialized
\* and babel_bundle is still the bundle of an earlier build
C31_Witness ==
    /\ last.op = "init_app"
    /\ bundles.isNone
    /\ last.outcome = "TypeError"
    /\ Len(_deferred_functions) = 1
    /\ last.completed = <<>>
    /\ ~_initialized
    /\ babel_bundle = "babel1"

-----------------------------------------------------------------------------
\* _reset and what it keeps.

\* a container that is built up, initialized, reset and initialized again:
\* closures are deferred, services registered, actions logged and a table
\* registered, before or after a _reset
NextReset ==
    \/ DeferredRegistration("before_request", MaxDeferred)
    \/ \E bs \in {List(<<>>), List(<<Bundle("babel1", TRUE)>>)} :
          init_app("app1", bs, 0, MaxInitCalls)
    \/ _reset
    \/ \E r \in LifeRegistrations : register_service(r[1], r[2])
    \/ register_extension("a", "ext_a")
    \/ \E data \in Payloads : log_action("x", data, 0, MinorCap)
    \/ \E t \in Tables : register_action_table("x", t.column_names, t.converter)

SpecReset == Init /\ [][NextReset]_vars

\* C32: _reset sets _initialized to False and empties _services_registry,
\* extensions and services, and changes nothing else: _deferred_functions,
\* _action_log, _action_tables, bundles and babel_bundle are what they were;
\* and the init_app call that follows a _reset replays every closure
\* deferred so far, those deferred before the _reset included.
C32_ResetFrame ==
    [][/\ last'.op = "_reset" =>
              /\ ~_initialized'
              /\ _services_registry' = EmptyMap
              /\ extensions' = EmptyMap
              /\ services' = EmptyMap
              /\ _deferred_functions' = _deferred_functions
              /\ _action_log' = _action_log
              /\ _action_tables' = _action_tables
              /\ bundles' = bundles
              /\ babel_bundle' = babel_bundle
       /\ (last.op = "_reset" /\ last'.op = "init_app") =>
              /\ last'.outcome = "ok"
              /\ \A c \in 1..Len(_deferred_functions) :
                    Replays("app1", c)' = Replays("app1", c) + 1
      ]_vars

\* C32 witness: a container that was initialized with a localization
\* bundle, holds two deferred closures, each already replayed once, a logged
\* action and a table for it, has just been reset
C32_Witness ==
    /\ last.op = "_reset"
    /\ ~_initialized
    /\ Len(_deferred_functions) = 2
    /\ Replays("app1", 1) = 1
    /\ Replays("app1", 2) = 1
    /\ babel_bundle = "babel1"
    /\ "x" \in DOMAIN _action_log
    /\ "x" \in DOMAIN _action_tables

\* C32 second case: after the reset the next init_app has replayed the
\* closures a second time
C32_WitnessReplayed ==
    /\ last.op = "init_app"
    /\ last.outcome = "ok"
    /\ Len(_deferred_functions) = 1
    /\ Replays("app1", 1) = 2
    /\ _services_registry = EmptyMap

====
